---- MODULE Spec2Model ----
(***************************************************************************)
(* A model of the hands-on SIMD examples: the image-processing kernels     *)
(* (brightness, contrast, grayscale), the load/store example (its main    *)
(* from the masked load to the masked store, and the two masked            *)
(* intrinsics on their own), the conditional-code example (its main from   *)
(* allocation to free), the quadratic solver, the dot products,            *)
(* benchmark_comparison, aligned_alloc and the examples' vector loads and  *)
(* stores by address.                                                      *)
(*                                                                         *)
(* Every behaviour runs ONE of the programs, chosen by Init together with  *)
(* its inputs; the variables of the other programs stay idle.              *)
(*                                                                         *)
(* Numbers.  Bytes are 0..255.  32-bit lanes are signed integers, so the   *)
(* all-ones pattern is -1.  The floats of the contrast kernel are counted  *)
(* in quarters (an integer q stands for q/4): with a contrast that is a    *)
(* multiple of 1/4 every intermediate value is exact in binary32.  The     *)
(* floats of the grayscale kernel are binary32 values counted in units of  *)
(* 2^-27 and kept in two limbs, rounded to 24 significant bits after each  *)
(* operation as the hardware does.                                         *)
(***************************************************************************)
EXTENDS Integers, Sequences, FiniteSets, TLC

VARIABLES
    prog,        \* which program / kernel this behaviour runs
    pc,          \* position inside the running program
    \* ---- image kernels (03_Examples/04_image_processing) ----
    size,        \* the size argument of the kernel
    brightness,  \* the brightness argument
    contrast,    \* the contrast argument, in quarters
    image0,      \* the buffer as it was when the kernel was called
    image,       \* the buffer the SIMD kernel works on
    i,           \* the kernel's loop index
    vecIdx,      \* indices accessed by vector-loop iterations
    remIdx,      \* indices accessed by remainder-loop iterations
    wcount,      \* per buffer index: how often it has been written
    vecIters,    \* how many times the vector-loop body has run
    \* ---- grayscale conversion (03_Examples/04_image_processing) ----
    width,       \* the width argument
    height,      \* the height argument
    src,         \* the RGB source buffer
    dst0,        \* the destination buffer as it was when the kernel was called
    dst,         \* the destination buffer the SIMD kernel writes
    x,           \* the column loop index
    y,           \* the row loop index
    srcReads,    \* indices of src the kernel has read
    \* ---- loading and storing data (01_Basics/04_loading_data) ----
    aligned0,    \* aligned_data as it was before the masked store
    aligned_data,\* the 8-float aligned buffer
    mask,        \* the integer mask of the masked load
    masked_vec,  \* the result of the masked load
    test_vec,    \* the vector that is stored
    mask2,       \* the integer mask of the masked store
    \* ---- conditional code (03_Examples/01_conditional_code) ----
    data1, data2,               \* the input arrays
    vector1, vector2,           \* the registers loaded from them
    result_scalar, result_simd, \* the result arrays
    positive_mask, greater_mask, combined_mask, blend_mask,
    \* ---- quadratic solver ----
    qa, qb, qc,    \* the coefficient arrays a, b and c
    discriminant,  \* the SIMD path's discriminant register
    qmask,         \* the SIMD path's mask of real roots
    qresult,       \* the union result: the lanes last stored
    qscalar,       \* the lanes of result as scalar_func left them
    \* ---- dot product (02_Computations/02_dot_product) ----
    vectors1, vectors2,          \* the arrays of Vec3 (array of structures)
    soa_vectors1, soa_vectors2,  \* the same as Vec3Array (structure of arrays)
    sum,           \* simdDotProductLarge: the 8-lane accumulator
    total,         \* simdDotProductLarge: the scalar total
    di,            \* simdDotProductLarge: the loop index
    dotReads,      \* simdDotProductLarge: the element indices read
    dotTrace,      \* the steps a reduction loop has taken, in order
    v1, v2,        \* the two vectors of the single dot product
    scalar_dot,    \* v1.dot(v2)
    simd_dot,      \* simdDotProductSingle(v1, v2)
    \* ---- benchmark_comparison on the image kernels ----
    bench,            \* which benchmark: "brightness" or "contrast"
    bench_size,       \* IMAGE_SIZE
    iterations,       \* the iterations argument
    bench_i,          \* the loop counter of the running timed loop
    calls,            \* the calls made so far, each with the image it worked on
    original_image,   \* the test image
    processed_image,  \* the buffer the callables work on
    \* ---- aligned_alloc<T>(size, alignment) (simd_utils.h) ----
    alloc_size,       \* the size argument, a 64-bit size_t in four 16-bit limbs
    alloc_sizeof,     \* sizeof(T)
    alloc_alignment,  \* the alignment argument
    alloc_bytes,      \* the byte count handed to posix_memalign, in limbs
    alloc_rc,         \* the value posix_memalign returned
    alloc_ptr,        \* ptr, an address; 0 is nullptr
    alloc_outcome,    \* "pending", "returned" or "bad_alloc"
    \* ---- the examples' vector loads and stores, by address ----
    mem_example,      \* which example runs
    buf_addr,         \* the byte address of each of its buffers
    large_size,       \* LARGE_SIZE of the stream-store loop
    mem_size,         \* IMAGE_SIZE of the image kernels, NUM_VECTORS of the dot product
    mem_k,            \* the next access of the example's straight-line part
    mem_i,            \* the index of the stream-store loop
    mem_log,          \* the vector loads and stores made so far
    \* ---- the conditional-code example's main, from allocation to free ----
    section,          \* "clamp", "filter", "complex" or "blend"
    main_i,           \* the counter of the running loop or run of statements
    heap,             \* per buffer: "unallocated", "live" or "freed"
    frees,            \* per buffer: how many times free was called on it
    stale,            \* buffers read or written after their release
    main_exit,        \* "running", "returned" or "terminated"
    bitmask,          \* _mm256_movemask_ps(positive_mask)
    combined_bitmask, \* _mm256_movemask_ps(combined_mask)
    blended,          \* the blended register of section 4
    cond_log          \* the callables invoked so far, each with the memory it left

imageVars == <<size, brightness, contrast, image0, image, i, vecIdx, remIdx,
               wcount, vecIters>>

\* wcount, vecIdx, remIdx and vecIters also serve the grayscale kernel, for dst
grayVars == <<width, height, src, dst0, dst, x, y, srcReads>>

lsVars == <<aligned0, aligned_data, mask, masked_vec, test_vec, mask2>>

condVars == <<data1, data2, vector1, vector2, result_scalar, result_simd,
              positive_mask, greater_mask, combined_mask, blend_mask>>

quadVars == <<qa, qb, qc, discriminant, qmask, qresult, qscalar>>

dotVars == <<vectors1, vectors2, soa_vectors1, soa_vectors2, sum, total, di,
             dotReads, dotTrace, v1, v2, scalar_dot, simd_dot>>

benchVars == <<bench, bench_size, iterations, bench_i, calls, original_image,
               processed_image>>

\* the variables of the benchmark harness and the utilities
allocVars == <<alloc_size, alloc_sizeof, alloc_alignment, alloc_bytes, alloc_rc,
               alloc_ptr, alloc_outcome>>

memVars == <<mem_example, buf_addr, large_size, mem_size, mem_k, mem_i, mem_log>>

mainVars == <<section, main_i, heap, frees, stale, main_exit, bitmask,
              combined_bitmask, blended, cond_log>>

utilVars == <<benchVars, allocVars, memVars, mainVars>>

\* the variables of the programs that are not image kernels
restVars == <<lsVars, condVars, quadVars, dotVars, utilVars>>

vars == <<prog, pc, imageVars, grayVars, restVars>>

----------------------------------------------------------------------------
(* Bounds of the model *)

\* largest size argument handed to the 1-D kernels
MaxSize == 66
\* elements the buffer holds beyond the size argument
Pad == 2
\* largest width and height handed to the grayscale kernel
MaxWidth == 9
MaxHeight == 2
\* largest number of 3-vectors handed to the dot products
MaxVectors == 17
\* largest iterations argument handed to benchmark_comparison
MaxIterations == 3
\* number of places the allocator may put a block at
MaxPlacements == 3
\* largest number of 8-float blocks of the stream-store loop's array
MaxStreamBlocks == 3

----------------------------------------------------------------------------
(* Shared helpers *)

Min(a, b) == IF a < b THEN a ELSE b
Max(a, b) == IF a < b THEN b ELSE a

\* std::min(a, b) and std::max(a, b) on ordered values
std_min(a, b) == IF b < a THEN b ELSE a
std_max(a, b) == IF a < b THEN b ELSE a

\* static_cast<uint8_t>(n) / static_cast<char>(n) of an int: the low 8 bits
ToByte(n) == n % 256

\* a read of buf[k]; an index outside the buffer reads as 0 in the model and
\* is recorded by the caller in the access sets
Rd(buf, k) == IF k \in DOMAIN buf THEN buf[k] ELSE 0

\* a store of the lanes of vec (a function on 0..w-1) at buf[at .. at+w-1]
StoreLanes(buf, at, w, vec) ==
    [k \in DOMAIN buf |-> IF k >= at /\ k < at + w THEN vec[k - at] ELSE buf[k]]

\* the write counters after one more write to every index of S
Bump(wc, S) == [k \in DOMAIN wc |-> IF k \in S THEN wc[k] + 1 ELSE wc[k]]

\* the test buffers: cap bytes, a gradient from start in steps of step
TestImage(cap, start, step) == [k \in 0..(cap - 1) |-> (start + k * step) % 256]

ImagePatterns == {<<0, 1>>, <<129, 0>>, <<200, 3>>}

----------------------------------------------------------------------------
(* 1. Brightness adjustment *)

Brightnesses == {-10, 0, 50, 300}

\* lanes of a 256-bit register of bytes
BrightnessLanes == 32

\* lines 62-63: one element of the scalar kernel
brightness_scalar_elem(p, b) ==
    LET value == p + b
    IN  ToByte(std_min(255, std_max(0, value)))

\* adjust_brightness_scalar: the buffer after the whole loop
adjust_brightness_scalar(img, n, b) ==
    [k \in DOMAIN img |-> IF k < n THEN brightness_scalar_elem(img[k], b) ELSE img[k]]

\* _mm256_set1_epi8(static_cast<char>(brightness))
mm256_set1_epi8(b) == [l \in 0..(BrightnessLanes - 1) |-> ToByte(b)]

\* _mm256_loadu_si256 at &image[at]
mm256_loadu_si256(buf, at) == [l \in 0..(BrightnessLanes - 1) |-> Rd(buf, at + l)]

\* _mm256_add_epi8: the add of bytes that wraps
mm256_add_epi8(a, b) == [l \in DOMAIN a |-> (a[l] + b[l]) % 256]

\* _mm256_adds_epu8: unsigned saturating add of bytes
mm256_adds_epu8(a, b) == [l \in DOMAIN a |-> Min(255, a[l] + b[l])]

\* the loop condition of a kernel whose loop runs while i < size
brightness_vec_cond_to_size(idx, n) == idx < n

\* line 76: the vector loop's condition
brightness_vec_cond(idx, n) == idx <= n - 32

\* lines 89-90: one element of the SIMD kernel's remainder loop
brightness_remainder_elem(p, b) ==
    LET value == p + b
    IN  ToByte(std_min(255, std_max(0, value)))

\* lines 76-85: one iteration of the vector loop
brightness_simd_vector ==
    /\ prog = "brightness" /\ pc = "vec"
    /\ brightness_vec_cond(i, size)
    /\ LET brightness_vec == mm256_set1_epi8(brightness)
           pixels == mm256_loadu_si256(image, i)
           result == mm256_adds_epu8(pixels, brightness_vec)
           idxs == i..(i + BrightnessLanes - 1)
       IN  /\ image' = StoreLanes(image, i, BrightnessLanes, result)
           /\ vecIdx' = vecIdx \cup idxs
           /\ wcount' = Bump(wcount, idxs)
    /\ i' = i + 32
    /\ vecIters' = vecIters + 1
    /\ UNCHANGED <<prog, pc, size, brightness, contrast, image0, remIdx, grayVars, restVars>>

\* line 76: the vector loop ends
brightness_simd_vector_exit ==
    /\ prog = "brightness" /\ pc = "vec"
    /\ ~brightness_vec_cond(i, size)
    /\ pc' = "rem"
    /\ UNCHANGED <<prog, imageVars, grayVars, restVars>>

\* lines 88-91: one iteration of the remainder loop
brightness_simd_remainder ==
    /\ prog = "brightness" /\ pc = "rem"
    /\ i < size
    /\ image' = [image EXCEPT ![i] = brightness_remainder_elem(image[i], brightness)]
    /\ remIdx' = remIdx \cup {i}
    /\ wcount' = Bump(wcount, {i})
    /\ i' = i + 1
    /\ UNCHANGED <<prog, pc, size, brightness, contrast, image0, vecIdx, vecIters, grayVars, restVars>>

\* line 92: the kernel returns
brightness_simd_return ==
    /\ prog = "brightness" /\ pc = "rem"
    /\ ~(i < size)
    /\ pc' = "done"
    /\ UNCHANGED <<prog, imageVars, grayVars, restVars>>

\* adjust_brightness_simd, lines 68-92: the buffer after the whole kernel
adjust_brightness_simd_buffer(img, n, b) ==
    [k \in DOMAIN img |->
        IF brightness_vec_cond((k \div 32) * 32, n)
        THEN LET brightness_vec == mm256_set1_epi8(b)
                 pixels == mm256_loadu_si256(img, (k \div 32) * 32)
             IN  mm256_adds_epu8(pixels, brightness_vec)[k % 32]
        ELSE IF k < n THEN brightness_remainder_elem(img[k], b)
        ELSE img[k]]

adjust_brightness_simd ==
    \/ brightness_simd_vector
    \/ brightness_simd_vector_exit
    \/ brightness_simd_remainder
    \/ brightness_simd_return

\* a call adjust_brightness_simd(image, size, brightness)
InitBrightness ==
    /\ prog = "brightness" /\ pc = "vec"
    /\ size \in 0..MaxSize
    /\ brightness \in Brightnesses
    /\ contrast = 0
    /\ \E pat \in ImagePatterns : image0 = TestImage(size + Pad, pat[1], pat[2])
    /\ image = image0
    /\ i = 0
    /\ vecIdx = {} /\ remIdx = {}
    /\ wcount = [k \in DOMAIN image0 |-> 0]
    /\ vecIters = 0

\* a call adjust_brightness_simd(image, 32, brightness) for every brightness
\* in 0..255 on one block of 32 pixels; the blocks together hold every byte
InitBrightnessRange ==
    /\ prog = "brightness" /\ pc = "vec"
    /\ size = BrightnessLanes
    /\ brightness \in 0..255
    /\ contrast = 0
    /\ \E j \in 0..7 : image0 = TestImage(size + Pad, BrightnessLanes * j, 1)
    /\ image = image0
    /\ i = 0
    /\ vecIdx = {} /\ remIdx = {}
    /\ wcount = [k \in DOMAIN image0 |-> 0]
    /\ vecIters = 0

----------------------------------------------------------------------------
(* 2. Contrast enhancement.  Floats are counted in quarters. *)

\* the contrast arguments, in quarters: 1.5, 1.0, 1.25, -1.0
Contrasts == {6, 4, 5, -4}

\* lanes of a 256-bit register of floats
FloatLanes == 8

\* static_cast<float>(n), _mm256_cvtepi32_ps: an integer as a float
FloatOfInt(n) == 4 * n
\* a float literal with an integral value
FloatLit(n) == 4 * n
\* float * float (exact for the values the kernels produce)
FMul(a, b) == (a * b) \div 4

\* static_cast<uint8_t>(float) of a float in [0, 256): truncation
TruncToByte(q) == ToByte(q \div 4)

\* _mm256_cvtps_epi32 on one lane: round to nearest, ties to even
cvtps_epi32(q) ==
    LET fl == q \div 4
        r  == q % 4
    IN  IF r < 2 THEN fl
        ELSE IF r > 2 THEN fl + 1
        ELSE IF fl % 2 = 0 THEN fl ELSE fl + 1

\* _mm256_cvtepi32_epi8 on one lane: the low byte of the 32-bit lane
cvtepi32_epi8(n) == ToByte(n)

\* lines 98-99: one element of the scalar kernel
contrast_scalar_elem(p, c) ==
    LET value == FMul(FloatOfInt(p) - FloatLit(128), c) + FloatLit(128)
    IN  TruncToByte(std_min(FloatLit(255), std_max(FloatLit(0), value)))

\* enhance_contrast_scalar: the buffer after the whole loop
enhance_contrast_scalar(img, n, c) ==
    [k \in DOMAIN img |-> IF k < n THEN contrast_scalar_elem(img[k], c) ELSE img[k]]

\* lines 115-117: load 8 bytes and convert to float
contrast_load(buf, at) == [l \in 0..(FloatLanes - 1) |-> FloatOfInt(Rd(buf, at + l))]

\* lines 120-129 on one lane
contrast_vector_lane(px, c) ==
    LET centered  == px - FloatLit(128)
        scaled    == FMul(centered, c)
        result_ps == scaled + FloatLit(128)
        clamped   == Min(Max(result_ps, FloatLit(0)), FloatLit(255))
    IN  cvtepi32_epi8(cvtps_epi32(clamped))

\* the loop condition with size - 8 computed in unsigned arithmetic: it wraps
\* to a huge value when size < 8
contrast_vec_cond_unsigned(idx, n) == IF n < 8 THEN TRUE ELSE idx <= n - 8

\* line 113: the vector loop's condition
contrast_vec_cond(idx, n) == idx <= n - 8

\* a remainder loop that rounds to nearest as the vector path does
contrast_remainder_elem_rounding(p, c) ==
    LET value == FMul(FloatOfInt(p) - FloatLit(128), c) + FloatLit(128)
    IN  ToByte(cvtps_epi32(std_min(FloatLit(255), std_max(FloatLit(0), value))))

\* lines 135-136: one element of the SIMD kernel's remainder loop
contrast_remainder_elem(p, c) ==
    LET value == FMul(FloatOfInt(p) - FloatLit(128), c) + FloatLit(128)
    IN  TruncToByte(std_min(FloatLit(255), std_max(FloatLit(0), value)))

\* lines 113-131: one iteration of the vector loop
contrast_simd_vector ==
    /\ prog = "contrast" /\ pc = "vec"
    /\ contrast_vec_cond(i, size)
    /\ LET pixels_ps == contrast_load(image, i)
           result_epi8 == [l \in DOMAIN pixels_ps |->
                              contrast_vector_lane(pixels_ps[l], contrast)]
           idxs == i..(i + FloatLanes - 1)
       IN  /\ image' = StoreLanes(image, i, FloatLanes, result_epi8)
           /\ vecIdx' = vecIdx \cup idxs
           /\ wcount' = Bump(wcount, idxs)
    /\ i' = i + 8
    /\ vecIters' = vecIters + 1
    /\ UNCHANGED <<prog, pc, size, brightness, contrast, image0, remIdx, grayVars, restVars>>

\* line 113: the vector loop ends
contrast_simd_vector_exit ==
    /\ prog = "contrast" /\ pc = "vec"
    /\ ~contrast_vec_cond(i, size)
    /\ pc' = "rem"
    /\ UNCHANGED <<prog, imageVars, grayVars, restVars>>

\* lines 134-137: one iteration of the remainder loop
contrast_simd_remainder ==
    /\ prog = "contrast" /\ pc = "rem"
    /\ i < size
    /\ image' = [image EXCEPT ![i] = contrast_remainder_elem(image[i], contrast)]
    /\ remIdx' = remIdx \cup {i}
    /\ wcount' = Bump(wcount, {i})
    /\ i' = i + 1
    /\ UNCHANGED <<prog, pc, size, brightness, contrast, image0, vecIdx, vecIters, grayVars, restVars>>

\* line 138: the kernel returns
contrast_simd_return ==
    /\ prog = "contrast" /\ pc = "rem"
    /\ ~(i < size)
    /\ pc' = "done"
    /\ UNCHANGED <<prog, imageVars, grayVars, restVars>>

\* enhance_contrast_simd, lines 104-138: the buffer after the whole kernel
enhance_contrast_simd_buffer(img, n, c) ==
    [k \in DOMAIN img |->
        IF contrast_vec_cond((k \div 8) * 8, n)
        THEN contrast_vector_lane(contrast_load(img, (k \div 8) * 8)[k % 8], c)
        ELSE IF k < n THEN contrast_remainder_elem(img[k], c)
        ELSE img[k]]

enhance_contrast_simd ==
    \/ contrast_simd_vector
    \/ contrast_simd_vector_exit
    \/ contrast_simd_remainder
    \/ contrast_simd_return

\* a call enhance_contrast_simd(image, size, contrast)
InitContrast ==
    /\ prog = "contrast" /\ pc = "vec"
    /\ size \in 0..MaxSize
    /\ brightness = 0
    /\ contrast \in Contrasts
    /\ \E pat \in ImagePatterns : image0 = TestImage(size + Pad, pat[1], pat[2])
    /\ image = image0
    /\ i = 0
    /\ vecIdx = {} /\ remIdx = {}
    /\ wcount = [k \in DOMAIN image0 |-> 0]
    /\ vecIters = 0

\* the image kernels' variables while another program runs
IdleImage ==
    /\ size = 0 /\ brightness = 0 /\ contrast = 0
    /\ image0 = <<>> /\ image = <<>> /\ i = 0
    /\ vecIdx = {} /\ remIdx = {} /\ wcount = <<>> /\ vecIters = 0

----------------------------------------------------------------------------
(* binary32 arithmetic for the grayscale kernel.  A nonnegative float below *)
(* 256 is <<hi, lo>>, standing for (hi * 2^15 + lo) * 2^-27, 0 <= lo < 2^15 *)

RECURSIVE Pow2(_)
Pow2(k) == IF k <= 0 THEN 1 ELSE 2 * Pow2(k - 1)

RECURSIVE BitLen(_)
BitLen(n) == IF n <= 0 THEN 0 ELSE 1 + BitLen(n \div 2)

Limb == Pow2(15)

\* carry from lo into hi
F32Norm(hi, lo) == <<hi + lo \div Limb, lo % Limb>>

\* round to nearest, ties to even: q with the remainder r of a division by 2*half
RoundNearestEven(q, r, half) ==
    IF r < half THEN q
    ELSE IF r > half THEN q + 1
    ELSE IF q % 2 = 0 THEN q ELSE q + 1

\* the binary32 nearest to the exact value <<hi, lo>>: 24 significant bits
F32Round(v) ==
    LET hi  == v[1]
        lo  == v[2]
        len == IF hi > 0 THEN BitLen(hi) + 15 ELSE BitLen(lo)
        s   == len - 24
    IN  IF s <= 0 THEN v
        ELSE LET q  == hi * Pow2(15 - s) + lo \div Pow2(s)
                 r  == lo % Pow2(s)
                 qr == RoundNearestEven(q, r, Pow2(s - 1))
             IN  <<qr \div Pow2(15 - s), (qr % Pow2(15 - s)) * Pow2(s)>>

\* float * float where the second factor is an integer 0..255 held as a float
F32MulInt(w, n) == F32Round(F32Norm(w[1] * n, w[2] * n))

\* float + float
F32Add(a, b) == F32Round(F32Norm(a[1] + b[1], a[2] + b[2]))

F32Zero == <<0, 0>>

\* static_cast<uint8_t>(float): truncation, then the low byte
F32TruncToByte(v) == ToByte(v[1] \div Pow2(12))

\* _mm_cvtps_epi32 on one lane: round to nearest integer, ties to even
F32ToIntNearest(v) ==
    LET ip   == v[1] \div Pow2(12)
        frac == (v[1] % Pow2(12)) * Limb + v[2]
    IN  RoundNearestEven(ip, frac, Pow2(26))

----------------------------------------------------------------------------
(* 3. Grayscale conversion *)

\* 0.299f, 0.587f, 0.114f: the binary32 values nearest to the literals,
\* 40131100, 78785808 and 15300821 times 2^-27
weight_r == <<1224, 23068>>
weight_g == <<2404, 11536>>
weight_b == <<466, 30933>>

\* lines 148-152: the gray byte of the scalar kernel, each multiplication
\* and addition rounded.  A build that contracts the sum into fused
\* multiply-adds stores a different byte for 1001 of the 2^24 colours, none
\* of them a pixel of TestImage.
gray_scalar_pixel(r, g, b) ==
    F32TruncToByte(F32Add(F32Add(F32MulInt(weight_r, r), F32MulInt(weight_g, g)),
                          F32MulInt(weight_b, b)))

\* convert_to_grayscale_scalar: dst after the whole double loop
convert_to_grayscale_scalar(s, d, w, h) ==
    [k \in DOMAIN d |->
        IF k < w * h
        THEN gray_scalar_pixel(Rd(s, k * 3 + 0), Rd(s, k * 3 + 1), Rd(s, k * 3 + 2))
        ELSE d[k]]

\* lines 174-179: the gray byte of the SIMD kernel's scalar fallback
gray_fallback_pixel(r, g, b) ==
    LET gray == F32Add(F32Add(F32MulInt(weight_r, r), F32MulInt(weight_g, g)),
                       F32MulInt(weight_b, b))
    IN  F32TruncToByte(gray)

\* _mm_dp_ps(pixel_ps, weights, 0x71), lane 0: the products of lanes 0..2,
\* summed as (t0 + t1) + (t2 + 0)
mm_dp_ps_0x71(r, g, b) ==
    F32Add(F32Add(F32MulInt(weight_r, r), F32MulInt(weight_g, g)),
           F32Add(F32MulInt(weight_b, b), F32Zero))

\* lines 185-223 for one of the four pixels: dot product, _mm_cvtps_epi32,
\* _mm_extract_epi32 and the cast to a byte
gray_vector_pixel(r, g, b) == ToByte(F32ToIntNearest(mm_dp_ps_0x71(r, g, b)))

\* an edge test that lets a group of 4 start on the last 3 pixels of a row
gray_edge_cond_late(col, w) == col + 3 > w

\* line 170: the edge test
gray_edge_cond(col, w) == col + 4 > w

\* the source indices of the pixels P (destination indices)
SrcIdx(P) == {k * 3 + c : k \in P, c \in 0..2}

\* lines 184-223: four pixels at once
gray_simd_vector ==
    /\ prog = "gray" /\ pc = "loop"
    /\ y < height /\ x < width
    /\ ~gray_edge_cond(x, width)
    /\ LET P == {y * width + x + j : j \in 0..3}
       IN  /\ dst' = [k \in DOMAIN dst |->
                        IF k \in P
                        THEN gray_vector_pixel(Rd(src, k * 3 + 0), Rd(src, k * 3 + 1),
                                               Rd(src, k * 3 + 2))
                        ELSE dst[k]]
           /\ srcReads' = srcReads \cup SrcIdx(P)
           /\ vecIdx' = vecIdx \cup P
           /\ wcount' = Bump(wcount, P)
    /\ x' = x + 4
    /\ vecIters' = vecIters + 1
    /\ UNCHANGED <<prog, pc, size, brightness, contrast, image0, image, i, remIdx,
                   width, height, src, dst0, y, restVars>>

\* lines 170-182: the last pixels of a row by the scalar fallback, then break
gray_simd_edge ==
    /\ prog = "gray" /\ pc = "loop"
    /\ y < height /\ x < width
    /\ gray_edge_cond(x, width)
    /\ LET P == {y * width + c : c \in x..(width - 1)}
       IN  /\ dst' = [k \in DOMAIN dst |->
                        IF k \in P
                        THEN gray_fallback_pixel(Rd(src, k * 3 + 0), Rd(src, k * 3 + 1),
                                                 Rd(src, k * 3 + 2))
                        ELSE dst[k]]
           /\ srcReads' = srcReads \cup SrcIdx(P)
           /\ remIdx' = remIdx \cup P
           /\ wcount' = Bump(wcount, P)
    /\ x' = 0
    /\ y' = y + 1
    /\ UNCHANGED <<prog, pc, size, brightness, contrast, image0, image, i, vecIdx,
                   vecIters, width, height, src, dst0, restVars>>

\* line 168: the column loop ends with the row complete
gray_simd_row_end ==
    /\ prog = "gray" /\ pc = "loop"
    /\ y < height /\ ~(x < width)
    /\ x' = 0
    /\ y' = y + 1
    /\ UNCHANGED <<prog, pc, imageVars, width, height, src, dst0, dst, srcReads,
                   restVars>>

\* line 167: the row loop ends, the kernel returns
gray_simd_return ==
    /\ prog = "gray" /\ pc = "loop"
    /\ ~(y < height)
    /\ pc' = "done"
    /\ UNCHANGED <<prog, imageVars, grayVars, restVars>>

convert_to_grayscale_simd ==
    \/ gray_simd_vector
    \/ gray_simd_edge
    \/ gray_simd_row_end
    \/ gray_simd_return

\* a call convert_to_grayscale_simd(src, dst, width, height); the destination
\* buffer holds 7 in every byte before the kernel runs
InitGray ==
    /\ prog = "gray" /\ pc = "loop"
    /\ width \in 0..MaxWidth
    /\ height \in 0..MaxHeight
    /\ \E pat \in ImagePatterns :
          src = TestImage(width * height * 3 + Pad, pat[1], pat[2])
    /\ dst0 = [k \in 0..(width * height + Pad - 1) |-> 7]
    /\ dst = dst0
    /\ x = 0 /\ y = 0
    /\ srcReads = {}
    /\ size = 0 /\ brightness = 0 /\ contrast = 0
    /\ image0 = <<>> /\ image = <<>> /\ i = 0
    /\ vecIdx = {} /\ remIdx = {} /\ vecIters = 0
    /\ wcount = [k \in DOMAIN dst0 |-> 0]

\* the grayscale kernel's variables while another program runs
IdleGray ==
    /\ width = 0 /\ height = 0 /\ src = <<>> /\ dst0 = <<>> /\ dst = <<>>
    /\ x = 0 /\ y = 0 /\ srcReads = {}

----------------------------------------------------------------------------
(* 256-bit registers of eight 32-bit lanes.  Lane l of a register loaded     *)
(* from memory holds element l.  A float lane holds its value, a mask or     *)
(* integer lane its signed 32-bit pattern.                                   *)

Lanes == 0..7

\* the all-ones 32-bit pattern, as a signed integer
AllOnes == -1

\* the register holding the elements t[1], ..., t[8] of memory in lanes 0..7
Vec8(t) == [l \in Lanes |-> t[l + 1]]

\* _mm256_set_epi32 / _mm256_set_ps: the FIRST argument is the HIGHEST lane
mm256_set(e7, e6, e5, e4, e3, e2, e1, e0) == Vec8(<<e0, e1, e2, e3, e4, e5, e6, e7>>)

\* _mm256_set1_ps
mm256_set1_ps(v) == [l \in Lanes |-> v]

\* a register of ones taken for the zero register
mm256_setzero_ps_ones == [l \in Lanes |-> 1]
\* _mm256_setzero_ps
mm256_setzero_ps == [l \in Lanes |-> 0]

\* _mm256_load_ps / _mm256_loadu_ps of an 8-element array
mm256_load_ps(buf) == [l \in Lanes |-> buf[l]]

\* _mm256_store_ps into an 8-element array
mm256_store_ps(buf, v) == [l \in DOMAIN buf |-> v[l]]

\* a comparison that yields the C++ boolean 1 instead of the all-ones pattern
mm256_cmp_ps_GT_bool(u, v) == [l \in Lanes |-> IF u[l] > v[l] THEN 1 ELSE 0]

\* a comparison for greater-or-equal that leaves out the equal lanes
mm256_cmp_ps_GE_strict(u, v) == [l \in Lanes |-> IF u[l] > v[l] THEN AllOnes ELSE 0]

\* _mm256_cmp_ps(x, y, _CMP_GT_OQ) and (x, y, _CMP_GE_OQ) on ordered values
mm256_cmp_ps_GT(u, v) == [l \in Lanes |-> IF u[l] > v[l] THEN AllOnes ELSE 0]
mm256_cmp_ps_GE(u, v) == [l \in Lanes |-> IF u[l] >= v[l] THEN AllOnes ELSE 0]

\* the bitwise AND of two signed 32-bit patterns: bit by bit over the low
\* 31 bits, the sign bit apart
RECURSIVE AndBits(_, _, _)
AndBits(m, n, k) ==
    IF k = 0 THEN 0
    ELSE (m % 2) * (n % 2) + 2 * AndBits(m \div 2, n \div 2, k - 1)

BitAnd32(m, n) ==
    IF m < 0 /\ n < 0 THEN AndBits(m, n, 31) + (-2147483647 - 1)
    ELSE AndBits(m, n, 31)

\* _mm256_and_ps on the lanes' bit patterns
mm256_and_ps(u, v) == [l \in Lanes |-> BitAnd32(u[l], v[l])]

\* the upper clamp done with the wrong intrinsic (max for min)
mm256_min_ps_as_max(u, v) == [l \in Lanes |-> IF u[l] > v[l] THEN u[l] ELSE v[l]]

\* _mm256_min_ps / _mm256_max_ps on ordered values
mm256_min_ps(u, v) == [l \in Lanes |-> IF u[l] < v[l] THEN u[l] ELSE v[l]]
mm256_max_ps(u, v) == [l \in Lanes |-> IF u[l] > v[l] THEN u[l] ELSE v[l]]

\* a blend with its two sources exchanged
mm256_blendv_ps_swapped(u, v, m) == [l \in Lanes |-> IF m[l] < 0 THEN u[l] ELSE v[l]]

\* _mm256_blendv_ps(u, v, m): v where the mask lane's sign bit is set
mm256_blendv_ps(u, v, m) == [l \in Lanes |-> IF m[l] < 0 THEN v[l] ELSE u[l]]

\* _mm256_maskload_ps(buf, m): buf where the sign bit is set, else zero
mm256_maskload_ps(buf, m) == [l \in Lanes |-> IF m[l] < 0 THEN buf[l] ELSE 0]

\* a masked store that zeroes the unselected elements, as the masked load does
mm256_maskstore_ps_zeroing(buf, m, v) ==
    [l \in DOMAIN buf |-> IF m[l] < 0 THEN v[l] ELSE 0]

\* _mm256_maskstore_ps(buf, m, v): the buffer afterwards
mm256_maskstore_ps(buf, m, v) ==
    [l \in DOMAIN buf |-> IF m[l] < 0 THEN v[l] ELSE buf[l]]

----------------------------------------------------------------------------
(* 4. Loading and storing data: the masked load and the masked store *)

\* line 87, line 153, line 101: the program's masks and its test vector
ProgMask  == mm256_set(0, -1, 0, -1, 0, -1, 0, -1)
ProgMask2 == mm256_set(-1, 0, -1, 0, -1, 0, -1, 0)
ProgTestVec == mm256_set(16, 14, 12, 10, 8, 6, 4, 2)

\* every mask built from the arguments 0 and -1
HandBuiltMasks == [Lanes -> {0, -1}]

\* lines 86-90: the mask of the even lanes and the masked load
masked_load ==
    /\ prog = "loadstore" /\ pc = "load"
    /\ mask' = ProgMask
    /\ masked_vec' = mm256_maskload_ps(aligned_data, mask')
    /\ pc' = "aligned_store"
    /\ UNCHANGED <<prog, aligned0, aligned_data, test_vec, mask2,
                   imageVars, grayVars, utilVars, condVars, quadVars, dotVars>>

\* lines 100-104: the test vector and its aligned store into aligned_data
aligned_store_once ==
    /\ prog = "loadstore" /\ pc = "aligned_store"
    /\ test_vec' = ProgTestVec
    /\ aligned_data' = mm256_store_ps(aligned_data, test_vec')
    /\ pc' = "benchmark_store"
    /\ UNCHANGED <<prog, aligned0, mask, masked_vec, mask2,
                   imageVars, grayVars, utilVars, condVars, quadVars, dotVars>>

\* lines 125-129 and 138: the benchmarked callable stores the test vector
\* into aligned_data again, every time with the same value
aligned_store ==
    /\ prog = "loadstore" /\ pc = "benchmark_store"
    /\ aligned_data' = mm256_store_ps(aligned_data, test_vec)
    /\ pc' = "reset"
    /\ UNCHANGED <<prog, aligned0, mask, masked_vec, test_vec, mask2,
                   imageVars, grayVars, utilVars, condVars, quadVars, dotVars>>

\* lines 148-150: aligned_data is reset to zero
reset_aligned_data ==
    /\ prog = "loadstore" /\ pc = "reset"
    /\ aligned_data' = [k \in DOMAIN aligned_data |-> 0]
    /\ aligned0' = aligned_data'
    /\ pc' = "store"
    /\ UNCHANGED <<prog, mask, masked_vec, test_vec, mask2,
                   imageVars, grayVars, utilVars, condVars, quadVars, dotVars>>

\* lines 152-156: the mask of the odd lanes and the masked store
masked_store ==
    /\ prog = "loadstore" /\ pc = "store"
    /\ mask2' = ProgMask2
    /\ aligned_data' = mm256_maskstore_ps(aligned_data, mask2', test_vec)
    /\ pc' = "done"
    /\ UNCHANGED <<prog, aligned0, mask, masked_vec, test_vec,
                   imageVars, grayVars, utilVars, condVars, quadVars, dotVars>>

loading_data ==
    \/ masked_load
    \/ aligned_store_once
    \/ aligned_store
    \/ reset_aligned_data
    \/ masked_store

\* lines 38-46: aligned_data holds 1..8; the masks and the test vector are
\* built later
InitLoadStore ==
    /\ prog = "loadstore" /\ pc = "load"
    /\ aligned_data = [l \in Lanes |-> l + 1]
    /\ aligned0 = aligned_data
    /\ mask = <<>> /\ masked_vec = <<>> /\ test_vec = <<>> /\ mask2 = <<>>

\* The two masked intrinsics as functions of their arguments: every mask
\* built from 0 and -1, applied to a buffer that holds zeros, 1..8 or the
\* test vector.
BufferContents == {[l \in Lanes |-> 0], [l \in Lanes |-> l + 1], ProgTestVec}

maskload_applied ==
    /\ prog = "maskops" /\ pc = "load"
    /\ masked_vec' = mm256_maskload_ps(aligned_data, mask)
    /\ pc' = "store"
    /\ UNCHANGED <<prog, aligned0, aligned_data, mask, test_vec, mask2,
                   imageVars, grayVars, utilVars, condVars, quadVars, dotVars>>

maskstore_applied ==
    /\ prog = "maskops" /\ pc = "store"
    /\ aligned_data' = mm256_maskstore_ps(aligned_data, mask2, test_vec)
    /\ pc' = "done"
    /\ UNCHANGED <<prog, aligned0, mask, masked_vec, test_vec, mask2,
                   imageVars, grayVars, utilVars, condVars, quadVars, dotVars>>

masked_operations == maskload_applied \/ maskstore_applied

InitMaskOps ==
    /\ prog = "maskops" /\ pc = "load"
    /\ aligned0 \in BufferContents
    /\ aligned_data = aligned0
    /\ mask \in {ProgMask, ProgMask2}
    /\ masked_vec = mm256_setzero_ps
    /\ test_vec \in {ProgTestVec, [l \in Lanes |-> 9 - l]}
    /\ mask2 \in HandBuiltMasks

IdleLoadStore ==
    /\ aligned0 = <<>> /\ aligned_data = <<>> /\ mask = <<>>
    /\ masked_vec = <<>> /\ test_vec = <<>> /\ mask2 = <<>>

----------------------------------------------------------------------------
(* 5. Conditional code: the data of the example, floats with integral      *)
(* values.  The program itself is section 11.                              *)

\* lines 37-42: the program's data
ProgData1 == Vec8(<<5, 10, 15, 20, 25, 30, 35, 40>>)
ProgData2 == Vec8(<<-1, 4, 9, -16, 25, -36, 49, -64>>)

\* line 244
ProgVector3 == mm256_set(80, 70, 60, 50, 40, 30, 20, 10)

\* the inputs the model runs the example on
CondInputs == {ProgData1, ProgData2, Vec8(<<31, 30, 29, 6, 5, 4, 0, -1>>)}

IdleCond ==
    /\ data1 = <<>> /\ data2 = <<>> /\ vector1 = <<>> /\ vector2 = <<>>
    /\ result_scalar = <<>> /\ result_simd = <<>>
    /\ positive_mask = <<>> /\ greater_mask = <<>>
    /\ combined_mask = <<>> /\ blend_mask = <<>>

----------------------------------------------------------------------------
(* 6. The quadratic solver: the SIMD path's discriminant and mask.  The    *)
(* coefficients are floats with integral values.                           *)

\* lines 26-48: the program's eight equations
ProgA == Vec8(<<5, 12, 6, 7, 1, 1, 1, 1>>)
ProgB == Vec8(<<3, 1, 4, -2, 2, 1, 1, 1>>)
ProgC == Vec8(<<-1, -5, -6, -6, 5, 30, 35, -40>>)

\* A result lane is a float that the model keeps as the operations that
\* made it: NaN, or the binary32 value of (minuend - sqrt(sqrt_of)) / divisor
\* with each operation rounded.  sqrtf and _mm256_sqrt_ps, the subtractions
\* and the divisions are the same correctly rounded IEEE operations, so two
\* lanes made by the same operations on the same values are the same float.
\* The integers do not tell the two zeros of binary32 apart: neg_zero says
\* that the lane is the float -0.0.
QNaN == [nan |-> TRUE, minuend |-> 0, sqrt_of |-> 0, divisor |-> 0,
         neg_zero |-> FALSE]

\* u - sqrt(s) is a zero: the zero is -0.0 when u is -0.0 and sqrt(s) is
\* +0.0, and +0.0 when the two are equal and not zero or when u is +0.0
sub_sqrt_neg_zero(u, u_neg_zero, s) == u = 0 /\ u_neg_zero /\ s = 0

\* n / d for a numerator n = u - sqrt(s) that is a zero: the signs multiply
div_neg_zero(u, s, n_neg_zero, d) ==
    /\ u >= 0 /\ u * u = s
    /\ n_neg_zero # (d < 0)

\* lines 70-81: scalar_func
quad_scalar_func(a, b, c) ==
    [lane \in Lanes |->
        LET disc == b[lane] * b[lane] - 4 * a[lane] * c[lane]
        IN  IF disc >= 0
            THEN [nan |-> FALSE, minuend |-> -b[lane], sqrt_of |-> disc,
                  divisor |-> 2 * a[lane],
                  neg_zero |-> div_neg_zero(-b[lane], disc,
                                   sub_sqrt_neg_zero(-b[lane], b[lane] = 0, disc),
                                   2 * a[lane])]
            ELSE QNaN]

\* _mm256_sqrt_ps: NaN in the lanes that hold a negative value
mm256_sqrt_ps(v) == [l \in Lanes |-> [nan |-> v[l] < 0, sqrt_of |-> v[l]]]

\* _mm256_sub_ps(u, s) where s holds square roots and u the differences
\* 0 - b, which are +0.0 where they are zero
mm256_sub_ps_sqrt(u, s) ==
    [l \in Lanes |-> [nan |-> s[l].nan, minuend |-> u[l], sqrt_of |-> s[l].sqrt_of,
                      neg_zero |-> sub_sqrt_neg_zero(u[l], FALSE, s[l].sqrt_of)]]

\* _mm256_div_ps(n, d) where n holds the numerators
mm256_div_ps(n, d) ==
    [l \in Lanes |-> [nan |-> n[l].nan, minuend |-> n[l].minuend,
                      sqrt_of |-> n[l].sqrt_of, divisor |-> d[l],
                      neg_zero |-> div_neg_zero(n[l].minuend, n[l].sqrt_of,
                                                n[l].neg_zero, d[l])]]

\* line 79: the scalar path; result holds NaN in every lane before (line 66)
quad_scalar ==
    /\ prog = "quad" /\ pc = "scalar"
    /\ qresult' = quad_scalar_func(qa, qb, qc)
    /\ qscalar' = qresult'
    /\ pc' = "simd"
    /\ UNCHANGED <<prog, qa, qb, qc, discriminant, qmask,
                   imageVars, grayVars, utilVars, lsVars, condVars, dotVars>>

\* lines 102-142: simd_func, with the discriminant and the mask of the lanes
\* with real roots (lines 104-118)
quad_simd_mask ==
    /\ prog = "quad" /\ pc = "simd"
    /\ LET aCoeffs == mm256_load_ps(qa)
           bCoeffs == mm256_load_ps(qb)
           cCoeffs == mm256_load_ps(qc)
           four == mm256_set1_ps(4)
           ac == [l \in Lanes |-> aCoeffs[l] * cCoeffs[l]]
           four_ac == [l \in Lanes |-> four[l] * ac[l]]
           b_squared == [l \in Lanes |-> bCoeffs[l] * bCoeffs[l]]
           disc == [l \in Lanes |-> b_squared[l] - four_ac[l]]
           zero == mm256_setzero_ps
           msk == mm256_cmp_ps_GE(disc, zero)
           sqrt_discriminant == mm256_sqrt_ps(disc)
           neg_b == [l \in Lanes |-> zero[l] - bCoeffs[l]]
           numerator == mm256_sub_ps_sqrt(neg_b, sqrt_discriminant)
           two == mm256_set1_ps(2)
           denominator == [l \in Lanes |-> two[l] * aCoeffs[l]]
           solution == mm256_div_ps(numerator, denominator)
           nan == mm256_set1_ps(QNaN)
           final_result == mm256_blendv_ps(nan, solution, msk)
       IN  /\ discriminant' = disc
           /\ qmask' = msk
           /\ qresult' = final_result
    /\ pc' = "done"
    /\ UNCHANGED <<prog, qa, qb, qc, qscalar,
                   imageVars, grayVars, utilVars, lsVars, condVars, dotVars>>

\* main of the quadratic solver, lines 79 and 145
quadratic_solver == quad_scalar \/ quad_simd_mask

\* lines 21-67: the coefficients are set and result is filled with NaN
InitQuad ==
    /\ prog = "quad" /\ pc = "scalar"
    /\ qa = ProgA
    /\ qb \in {ProgB, [l \in Lanes |-> 2 * l - 6]}
    /\ qc \in {ProgC, [l \in Lanes |-> 1], [l \in Lanes |-> l - 3]}
    /\ discriminant = <<>> /\ qmask = <<>>
    /\ qresult = [l \in Lanes |-> QNaN]
    /\ qscalar = <<>>

IdleQuad ==
    /\ qa = <<>> /\ qb = <<>> /\ qc = <<>> /\ discriminant = <<>> /\ qmask = <<>>
    /\ qresult = <<>> /\ qscalar = <<>>

----------------------------------------------------------------------------
(* 7. Dot products.  The components are floats with integral values of     *)
(* magnitude at most 4096, so every product is exact in binary32 and only   *)
(* the sums round (a fused multiply-add and a multiply followed by an add   *)
(* then give the same float).  The components of the single dot product   *)
(* are the floats of decimal literals such as 0.3f; its products and sums   *)
(* round, and they are kept exactly as multiples of 2^-54.                  *)

\* the binary32 nearest to the integer n: 24 significant bits, ties to even
F32IntOf(n) ==
    LET m == IF n < 0 THEN -n ELSE n
        s == BitLen(m) - 24
    IN  IF s <= 0 THEN n
        ELSE LET qr == RoundNearestEven(m \div Pow2(s), m % Pow2(s), Pow2(s - 1))
             IN  (IF n < 0 THEN -1 ELSE 1) * qr * Pow2(s)

\* the same, with the argument evaluated once
F32Int(n) == CHOOSE r \in {F32IntOf(v) : v \in {n}} : TRUE

\* float + float and float * float
F32IntAdd(a, b) == F32Int(a + b)
F32IntMul(a, b) == F32Int(a * b)

\* struct Vec3
Vec3(px, py, pz) == [x |-> px, y |-> py, z |-> pz]

\* Vec3::dot, lines 30-32
Vec3_dot(v, o) == F32IntAdd(F32IntAdd(F32IntMul(v.x, o.x), F32IntMul(v.y, o.y)), F32IntMul(v.z, o.z))

\* convertToSoA, lines 73-81
convertToSoA(vs) ==
    [x |-> [k \in DOMAIN vs |-> vs[k].x],
     y |-> [k \in DOMAIN vs |-> vs[k].y],
     z |-> [k \in DOMAIN vs |-> vs[k].z]]

\* A float of the single dot product is <<hi, lo, nz>>: the value
\* (hi * 2^28 + lo) * 2^-54 with 0 <= lo < 2^28 and hi of either sign; nz
\* marks the negative zero.  A component is a float of magnitude at most 1
\* and is kept as the integer that counts its units of 2^-27.
Wide == Pow2(28)

WNorm(hi, lo) == <<hi + lo \div Wide, lo % Wide, FALSE>>

WIsZero(v) == v[1] = 0 /\ v[2] = 0

WNeg(v) ==
    IF WIsZero(v) THEN <<0, 0, ~v[3]>>
    ELSE IF v[2] = 0 THEN <<-v[1], 0, FALSE>>
    ELSE <<-v[1] - 1, Wide - v[2], FALSE>>

\* the exact sum; a zero sum is negative only if both terms are negative zeros
WSum(a, b) ==
    LET t == WNorm(a[1] + b[1], a[2] + b[2])
    IN  IF WIsZero(t) THEN <<0, 0, a[3] /\ b[3]>> ELSE t

\* the exact product of two components
WMul(a, b) ==
    LET ma == IF a < 0 THEN -a ELSE a
        mb == IF b < 0 THEN -b ELSE b
        half == Pow2(14)
        a1 == ma \div half
        a0 == ma % half
        b1 == mb \div half
        b0 == mb % half
        cross == a1 * b0 + a0 * b1
        mag == WNorm(a1 * b1 + cross \div half, (cross % half) * half + a0 * b0)
        neg == (a < 0) # (b < 0)
    IN  IF WIsZero(mag) THEN <<0, 0, neg>>
        ELSE IF neg THEN WNeg(mag) ELSE mag

\* the number of significant bits of a positive value
WBitLen(v) == IF v[1] > 0 THEN 28 + BitLen(v[1]) ELSE BitLen(v[2])

\* a positive value rounded to 24 significant bits, ties to even
WRoundMag(v) ==
    LET s == WBitLen(v) - 24
    IN  IF s <= 0 THEN v
        ELSE IF s <= 28
        THEN LET q == v[1] * Pow2(28 - s) + v[2] \div Pow2(s)
                 qr == RoundNearestEven(q, v[2] % Pow2(s), Pow2(s - 1))
             IN  <<qr \div Pow2(28 - s), (qr % Pow2(28 - s)) * Pow2(s), FALSE>>
        ELSE LET q == v[1] \div Pow2(s - 28)
                 rh == v[1] % Pow2(s - 28)
                 qr == RoundNearestEven(q, 2 * rh + (IF v[2] > 0 THEN 1 ELSE 0),
                                        Pow2(s - 28))
             IN  <<qr * Pow2(s - 28), 0, FALSE>>

\* the binary32 nearest to an exact value
F32Wide(v) ==
    IF WIsZero(v) THEN v
    ELSE IF v[1] < 0 THEN WNeg(WRoundMag(WNeg(v)))
    ELSE WRoundMag(v)

\* the float of the decimal literal k/10 (0.5f is F32OfTenths(5)), in units
\* of 2^-27
F32OfTenths(k) ==
    LET m == IF k < 0 THEN -k ELSE k
        n == m * Pow2(27)
        s == BitLen(n \div 10) - 24
        d == 10 * Pow2(s)
        qr == RoundNearestEven(n \div d, n % d, d \div 2)
    IN  IF k = 0 THEN 0
        ELSE (IF k < 0 THEN -1 ELSE 1) * qr * Pow2(s)

\* Vec3(0.1f * px, 0.1f * py, 0.1f * pz) written with decimal literals
Vec3OfTenths(t) == Vec3(F32OfTenths(t.x), F32OfTenths(t.y), F32OfTenths(t.z))

\* Vec3::dot, lines 30-32, on such components.  The expression
\* x * o.x + y * o.y + z * o.z is compiled to two multiplications and two
\* additions, or, where the build contracts floating-point expressions, to
\* the multiplication y * o.y, which rounds, and two fused multiply-adds
\* that round once each: fma(x, o.x, y * o.y) and then fma(z, o.z, ...).
Vec3_dot_separate(v, o) ==
    F32Wide(WSum(F32Wide(WSum(F32Wide(WMul(v.x, o.x)), F32Wide(WMul(v.y, o.y)))),
                 F32Wide(WMul(v.z, o.z))))

Vec3_dot_contracted(v, o) ==
    F32Wide(WSum(WMul(v.z, o.z),
                 F32Wide(WSum(WMul(v.x, o.x), F32Wide(WMul(v.y, o.y))))))

Vec3_dot_builds(v, o) == {Vec3_dot_separate(v, o), Vec3_dot_contracted(v, o)}

\* _mm_setr_ps: the arguments in lane order
mm_setr_ps(e0, e1, e2, e3) == [l \in 0..3 |-> <<e0, e1, e2, e3>>[l + 1]]

\* _mm_mul_ps
mm_mul_ps(u, w) == [l \in 0..3 |-> F32Wide(WMul(u[l], w[l]))]

\* a vertical add taken for the horizontal one
mm_hadd_ps_vertical(u, w) == [l \in 0..3 |-> F32Wide(WSum(u[l], w[l]))]

\* _mm_hadd_ps(u, w) = (u0+u1, u2+u3, w0+w1, w2+w3)
mm_hadd_ps(u, w) ==
    [l \in 0..3 |-> <<F32Wide(WSum(u[0], u[1])), F32Wide(WSum(u[2], u[3])),
                      F32Wide(WSum(w[0], w[1])), F32Wide(WSum(w[2], w[3]))>>[l + 1]]

\* _mm_cvtss_f32: lane 0
mm_cvtss_f32(u) == u[0]

\* simdDotProductSingle, lines 143-159
simdDotProductSingle(p, q) ==
    LET vec1  == mm_setr_ps(p.x, p.y, p.z, 0)
        vec2  == mm_setr_ps(q.x, q.y, q.z, 0)
        mul   == mm_mul_ps(vec1, vec2)
        hadd1 == mm_hadd_ps(mul, mul)
        hadd2 == mm_hadd_ps(hadd1, hadd1)
    IN  mm_cvtss_f32(hadd2)

\* _mm256_loadu_ps(&arr[offset])
mm256_loadu_ps(arr, offset) == [l \in Lanes |-> Rd(arr, offset + l)]

\* _mm256_mul_ps, _mm256_add_ps, _mm256_fmadd_ps(u, w, t) = u * w + t
mm256_mul_ps(u, w) == [l \in Lanes |-> F32IntMul(u[l], w[l])]
mm256_add_ps(u, w) == [l \in Lanes |-> F32IntAdd(u[l], w[l])]
\* a fused multiply-add that drops its addend
mm256_fmadd_ps_no_addend(u, w, t) == [l \in Lanes |-> F32Int(u[l] * w[l])]
mm256_fmadd_ps(u, w, t) == [l \in Lanes |-> F32Int(u[l] * w[l] + t[l])]

\* simdDotProductSoA8, lines 125-140
simdDotProductSoA8(s1, s2, offset) ==
    LET vx1 == mm256_loadu_ps(s1.x, offset)
        vy1 == mm256_loadu_ps(s1.y, offset)
        vz1 == mm256_loadu_ps(s1.z, offset)
        vx2 == mm256_loadu_ps(s2.x, offset)
        vy2 == mm256_loadu_ps(s2.y, offset)
        vz2 == mm256_loadu_ps(s2.z, offset)
        r1 == mm256_mul_ps(vx1, vx2)
        r2 == mm256_fmadd_ps(vy1, vy2, r1)
    IN  mm256_fmadd_ps(vz1, vz2, r2)

\* scalarDotProduct, lines 84-90: sum += vectors1[i].dot(vectors2[i]) in order
RECURSIVE scalarDotProductFrom(_, _, _, _)
scalarDotProductFrom(vs1, vs2, k, acc) ==
    IF k >= Cardinality(DOMAIN vs1) THEN acc
    ELSE scalarDotProductFrom(vs1, vs2, k + 1, F32IntAdd(acc, Vec3_dot(vs1[k], vs2[k])))

scalarDotProduct(vs1, vs2) == scalarDotProductFrom(vs1, vs2, 0, 0)

\* lines 177-180: total = 0.0f; for (i = 0; i < 8; i++) total += result_array[i]
RECURSIVE horizontal_sum(_, _, _)
horizontal_sum(result_array, k, acc) ==
    IF k < 8 THEN horizontal_sum(result_array, k + 1, F32IntAdd(acc, result_array[k]))
    ELSE acc

\* lines 163-165 of simdDotProductLarge
dot_size == Cardinality(DOMAIN soa_vectors1.x)
\* a block count that leaves the last full block to the remainder loop
dot_blocks_one_short == Max(0, dot_size \div 8 - 1)
dot_blocks == dot_size \div 8

\* A float computed from a read beyond the end of an array's storage: the
\* read is undefined, and the model does not commit to a value for it.
Indeterminate == "indeterminate"

\* the elements lie inside the second array (the first array is never
\* shorter than size, which is its own length)
dot_in_bounds(reads) == \A k \in reads : k < Cardinality(DOMAIN vectors2)

\* lines 169-172: one block of 8 vectors
dot_large_block ==
    /\ prog \in {"dot", "dotshort"} /\ pc = "blocks"
    /\ di < dot_blocks
    /\ dotReads' = dotReads \cup ((di * 8)..(di * 8 + 7))
    /\ LET dot8 == simdDotProductSoA8(soa_vectors1, soa_vectors2, di * 8)
       IN  sum' = IF dot_in_bounds(dotReads')
                  THEN mm256_add_ps(sum, dot8)
                  ELSE Indeterminate
    /\ dotTrace' = Append(dotTrace, "block")
    /\ di' = di + 1
    /\ UNCHANGED <<prog, pc, vectors1, vectors2, soa_vectors1, soa_vectors2, total,
                   v1, v2, scalar_dot, simd_dot,
                   imageVars, grayVars, utilVars, lsVars, condVars, quadVars>>

\* lines 174-180: the horizontal sum of the accumulator
dot_large_reduce ==
    /\ prog \in {"dot", "dotshort"} /\ pc = "blocks"
    /\ ~(di < dot_blocks)
    /\ LET result_array == sum
       IN  total' = IF dot_in_bounds(dotReads)
                    THEN horizontal_sum(result_array, 0, 0)
                    ELSE Indeterminate
    /\ di' = dot_blocks * 8
    /\ dotTrace' = Append(dotTrace, "reduce")
    /\ pc' = "rem"
    /\ UNCHANGED <<prog, vectors1, vectors2, soa_vectors1, soa_vectors2, sum,
                   dotReads, v1, v2, scalar_dot, simd_dot,
                   imageVars, grayVars, utilVars, lsVars, condVars, quadVars>>

\* lines 183-187: one remaining vector
dot_large_remainder ==
    /\ prog \in {"dot", "dotshort"} /\ pc = "rem"
    /\ di < dot_size
    /\ LET p == Vec3(Rd(soa_vectors1.x, di), Rd(soa_vectors1.y, di), Rd(soa_vectors1.z, di))
           q == Vec3(Rd(soa_vectors2.x, di), Rd(soa_vectors2.y, di), Rd(soa_vectors2.z, di))
       IN  total' = IF dot_in_bounds(dotReads \cup {di})
                    THEN F32IntAdd(total, Vec3_dot(p, q))
                    ELSE Indeterminate
    /\ dotReads' = dotReads \cup {di}
    /\ dotTrace' = Append(dotTrace, "rem")
    /\ di' = di + 1
    /\ UNCHANGED <<prog, pc, vectors1, vectors2, soa_vectors1, soa_vectors2, sum,
                   v1, v2, scalar_dot, simd_dot,
                   imageVars, grayVars, utilVars, lsVars, condVars, quadVars>>

\* line 189: return total
dot_large_return ==
    /\ prog \in {"dot", "dotshort"} /\ pc = "rem"
    /\ ~(di < dot_size)
    /\ pc' = "done"
    /\ UNCHANGED <<prog, dotVars, imageVars, grayVars, utilVars, lsVars, condVars, quadVars>>

\* the elements the next step of simdDotProductLarge reads
dot_next_reads ==
    IF pc = "blocks" /\ di < dot_blocks THEN (di * 8)..(di * 8 + 7)
    ELSE IF pc = "rem" /\ di < dot_size THEN {di}
    ELSE {}

\* lines 127-132 and 185: a read beyond the end of the second array's
\* storage is undefined; besides yielding some value (the steps above) it
\* can end the program
dot_large_fault ==
    /\ prog = "dotshort" /\ pc \in {"blocks", "rem"}
    /\ \E k \in dot_next_reads : k >= Cardinality(DOMAIN vectors2)
    /\ pc' = "fault"
    /\ UNCHANGED <<prog, dotVars, imageVars, grayVars, utilVars, lsVars, condVars, quadVars>>

simdDotProductLarge ==
    \/ dot_large_block
    \/ dot_large_reduce
    \/ dot_large_remainder
    \/ dot_large_return
    \/ dot_large_fault

\* the arrays of n vectors the model runs the large dot product on
TestVectors(n, kind) ==
    [k \in 0..(n - 1) |->
        IF kind = 0 THEN Vec3(0, 0, 0)
        ELSE IF kind = 1 THEN Vec3(k + 1, 2 - k, 3)
        ELSE IF kind = 2 THEN Vec3((k % 3) - 1, k, -2)
        ELSE Vec3(IF k = 1 THEN 4096 ELSE 1, 0, 0)]

\* kind 0 is all zero, kinds 1 and 2 are small, kind 3 holds a large component
TestKinds == 0..3

\* a call simdDotProductLarge(soa_vectors1, soa_vectors2); line 168 has run
InitDot ==
    /\ prog = "dot" /\ pc = "blocks"
    /\ \E n \in 0..MaxVectors, k1 \in TestKinds, k2 \in TestKinds :
          /\ vectors1 = TestVectors(n, k1)
          /\ vectors2 = TestVectors(n, k2)
    /\ soa_vectors1 = convertToSoA(vectors1)
    /\ soa_vectors2 = convertToSoA(vectors2)
    /\ sum = mm256_setzero_ps
    /\ total = 0
    /\ di = 0
    /\ dotReads = {}
    /\ dotTrace = <<>>
    /\ v1 = <<>> /\ v2 = <<>> /\ scalar_dot = 0 /\ simd_dot = 0

\* a call simdDotProductLarge(soa_vectors1, soa_vectors2) where the second
\* argument holds fewer vectors than the first
InitDotShort ==
    /\ prog = "dotshort" /\ pc = "blocks"
    /\ \E n \in 1..MaxVectors, m \in 0..MaxVectors :
          /\ m < n
          /\ vectors1 = TestVectors(n, 1)
          /\ vectors2 = TestVectors(m, 2)
    /\ soa_vectors1 = convertToSoA(vectors1)
    /\ soa_vectors2 = convertToSoA(vectors2)
    /\ sum = mm256_setzero_ps
    /\ total = 0
    /\ di = 0
    /\ dotReads = {}
    /\ dotTrace = <<>>
    /\ v1 = <<>> /\ v2 = <<>> /\ scalar_dot = 0 /\ simd_dot = 0

\* simdDotProduct8, lines 93-122: the first 8 vectors of two arrays of Vec3
simdDotProduct8(b1, b2) ==
    LET vx1 == [l \in Lanes |-> b1[l].x]
        vy1 == [l \in Lanes |-> b1[l].y]
        vz1 == [l \in Lanes |-> b1[l].z]
        vx2 == [l \in Lanes |-> b2[l].x]
        vy2 == [l \in Lanes |-> b2[l].y]
        vz2 == [l \in Lanes |-> b2[l].z]
        r1 == mm256_mul_ps(vx1, vx2)
        r2 == mm256_fmadd_ps(vy1, vy2, r1)
    IN  mm256_fmadd_ps(vz1, vz2, r2)

\* NUM_VECTORS, line 197: the length of vectors1 (1024 in the program)
NUM_VECTORS == Cardinality(DOMAIN vectors1)

\* lines 250-252 of simd_aos_benchmark: the loop runs on for another block
aos_loop_cond(idx, n) == idx < n /\ ~(std_min(8, n - idx) < 8)

\* lines 253-263: one block of 8 vectors, its 8 results added to the total
aos_block ==
    /\ prog = "aos" /\ pc = "loop"
    /\ aos_loop_cond(di, NUM_VECTORS)
    /\ LET block1  == [l \in Lanes |-> vectors1[di + l]]
           block2  == [l \in Lanes |-> vectors2[di + l]]
           results == simdDotProduct8(block1, block2)
       IN  total' = horizontal_sum(results, 0, total)
    /\ dotReads' = dotReads \cup (di..(di + 7))
    /\ dotTrace' = dotTrace \o <<"block", "reduce">>
    /\ di' = di + 8
    /\ UNCHANGED <<prog, pc, vectors1, vectors2, soa_vectors1, soa_vectors2, sum,
                   v1, v2, scalar_dot, simd_dot,
                   imageVars, grayVars, utilVars, lsVars, condVars, quadVars>>

\* the loop ends: at the end of the array or at an incomplete block
aos_exit ==
    /\ prog = "aos" /\ pc = "loop"
    /\ ~aos_loop_cond(di, NUM_VECTORS)
    /\ pc' = "done"
    /\ UNCHANGED <<prog, dotVars, imageVars, grayVars, utilVars, lsVars, condVars, quadVars>>

\* simd_aos_benchmark, lines 248-265
simd_aos_benchmark == aos_block \/ aos_exit

\* a call of simd_aos_benchmark; line 249 has run
InitAos ==
    /\ prog = "aos" /\ pc = "loop"
    /\ \E n \in 0..MaxVectors, k1 \in TestKinds, k2 \in TestKinds :
          /\ vectors1 = TestVectors(n, k1)
          /\ vectors2 = TestVectors(n, k2)
    /\ soa_vectors1 = <<>> /\ soa_vectors2 = <<>>
    /\ sum = <<>>
    /\ total = 0
    /\ di = 0
    /\ dotReads = {}
    /\ dotTrace = <<>>
    /\ v1 = <<>> /\ v2 = <<>> /\ scalar_dot = 0 /\ simd_dot = 0

\* lines 291-292: the program's two vectors, in tenths
ProgV1 == Vec3(5, -3, 8)
ProgV2 == Vec3(2, 7, -4)

\* the vectors the model runs the single dot product on, in tenths
SingleInputs ==
    {ProgV1, ProgV2, Vec3(0, 0, 0), Vec3(-10, 10, 3), Vec3(1, 1, 1),
     Vec3(-10, -3, -10)}

\* the vectors of the specification of the single dot product alone: the
\* program's two and every vector with components -1.0, -0.3, 0.0, 0.1, 0.7
SingleComponents == {-10, -3, 0, 1, 7}
AllSingleInputs ==
    {ProgV1, ProgV2}
        \cup {Vec3(a, b, c) : a \in SingleComponents, b \in SingleComponents,
                              c \in SingleComponents}

\* line 294
single_scalar_dot ==
    /\ prog = "dotsingle" /\ pc = "scalar"
    /\ scalar_dot' \in Vec3_dot_builds(v1, v2)
    /\ pc' = "simd"
    /\ UNCHANGED <<prog, vectors1, vectors2, soa_vectors1, soa_vectors2, sum, total,
                   di, dotReads, dotTrace, v1, v2, simd_dot,
                   imageVars, grayVars, utilVars, lsVars, condVars, quadVars>>

\* line 295
single_simd_dot ==
    /\ prog = "dotsingle" /\ pc = "simd"
    /\ simd_dot' = simdDotProductSingle(v1, v2)
    /\ pc' = "done"
    /\ UNCHANGED <<prog, vectors1, vectors2, soa_vectors1, soa_vectors2, sum, total,
                   di, dotReads, dotTrace, v1, v2, scalar_dot,
                   imageVars, grayVars, utilVars, lsVars, condVars, quadVars>>

single_dot_product == single_scalar_dot \/ single_simd_dot

\* lines 291-292: v1 and v2 are constructed from decimal literals
InitDotSingleOn(inputs) ==
    /\ prog = "dotsingle" /\ pc = "scalar"
    /\ \E t1 \in inputs, t2 \in inputs :
          /\ v1 = Vec3OfTenths(t1)
          /\ v2 = Vec3OfTenths(t2)
    /\ scalar_dot = 0 /\ simd_dot = 0
    /\ vectors1 = <<>> /\ vectors2 = <<>>
    /\ soa_vectors1 = <<>> /\ soa_vectors2 = <<>>
    /\ sum = <<>> /\ total = 0 /\ di = 0 /\ dotReads = {} /\ dotTrace = <<>>

InitDotSingle == InitDotSingleOn(SingleInputs)

IdleDot ==
    /\ vectors1 = <<>> /\ vectors2 = <<>>
    /\ soa_vectors1 = <<>> /\ soa_vectors2 = <<>>
    /\ sum = <<>> /\ total = 0 /\ di = 0 /\ dotReads = {} /\ dotTrace = <<>>
    /\ v1 = <<>> /\ v2 = <<>> /\ scalar_dot = 0 /\ simd_dot = 0

----------------------------------------------------------------------------
(* 8. benchmark_comparison (simd_utils.h) on the brightness and contrast     *)
(* callables of the image-processing example                                *)

\* the image sizes the benchmark is run on (IMAGE_SIZE is 1024*768*3)
BenchSizes == {0, 5, 33}

\* lines 250-252 and 273-275: the scalar callable's kernel, applied in place
scalar_func(kind, img, n) ==
    IF kind = "brightness" THEN adjust_brightness_scalar(img, n, 50)
    ELSE enhance_contrast_scalar(img, n, FloatLit(3) \div 2)

\* lines 254-258 and 277-281: the SIMD callable's kernel, applied in place
simd_func(kind, img, n) ==
    IF kind = "brightness" THEN adjust_brightness_simd_buffer(img, n, 50)
    ELSE enhance_contrast_simd_buffer(img, n, FloatLit(3) \div 2)

\* a copy that leaves the destination as it is
std_copy_nothing(from, to, n) == to

\* std::copy(original_image, original_image + IMAGE_SIZE, processed_image)
std_copy(from, to, n) == [k \in DOMAIN to |-> IF k < n THEN from[k] ELSE to[k]]

\* a call of the scalar callable: the kernel works on processed_image as it is
call_scalar_func(timed) ==
    /\ calls' = Append(calls, [f |-> "scalar", timed |-> timed,
                               input |-> processed_image])
    /\ processed_image' = scalar_func(bench, processed_image, bench_size)

\* a call of the SIMD callable: processed_image is reset, then the kernel runs
call_simd_func(timed) ==
    LET reset == std_copy(original_image, processed_image, bench_size)
    IN  /\ calls' = Append(calls, [f |-> "simd", timed |-> timed, input |-> reset])
        /\ processed_image' = simd_func(bench, reset, bench_size)

\* a timed loop that runs one time too many
bench_loop_cond_inclusive(k, n) == k <= n

\* lines 120 and 128: for (int i = 0; i < iterations; i++)
bench_loop_cond(k, n) == k < n

\* line 115
bench_warmup_scalar ==
    /\ prog = "benchmark" /\ pc = "warmup_scalar"
    /\ call_scalar_func(FALSE)
    /\ pc' = "warmup_simd"
    /\ UNCHANGED <<prog, bench, bench_size, iterations, bench_i, original_image,
                   allocVars, memVars, imageVars, grayVars, lsVars, condVars, quadVars,
                   dotVars, mainVars>>

\* line 116
bench_warmup_simd ==
    /\ prog = "benchmark" /\ pc = "warmup_simd"
    /\ call_simd_func(FALSE)
    /\ bench_i' = 0
    /\ pc' = "scalar_loop"
    /\ UNCHANGED <<prog, bench, bench_size, iterations, original_image,
                   allocVars, memVars, imageVars, grayVars, lsVars, condVars, quadVars,
                   dotVars, mainVars>>

\* lines 120-122: one timed call of scalar_func
bench_scalar_iter ==
    /\ prog = "benchmark" /\ pc = "scalar_loop"
    /\ bench_loop_cond(bench_i, iterations)
    /\ call_scalar_func(TRUE)
    /\ bench_i' = bench_i + 1
    /\ UNCHANGED <<prog, pc, bench, bench_size, iterations, original_image,
                   allocVars, memVars, imageVars, grayVars, lsVars, condVars, quadVars,
                   dotVars, mainVars>>

\* lines 123-127: the scalar loop ends
bench_scalar_end ==
    /\ prog = "benchmark" /\ pc = "scalar_loop"
    /\ ~bench_loop_cond(bench_i, iterations)
    /\ bench_i' = 0
    /\ pc' = "simd_loop"
    /\ UNCHANGED <<prog, bench, bench_size, iterations, calls, original_image,
                   processed_image,
                   allocVars, memVars, imageVars, grayVars, lsVars, condVars, quadVars,
                   dotVars, mainVars>>

\* lines 128-130: one timed call of simd_func
bench_simd_iter ==
    /\ prog = "benchmark" /\ pc = "simd_loop"
    /\ bench_loop_cond(bench_i, iterations)
    /\ call_simd_func(TRUE)
    /\ bench_i' = bench_i + 1
    /\ UNCHANGED <<prog, pc, bench, bench_size, iterations, original_image,
                   allocVars, memVars, imageVars, grayVars, lsVars, condVars, quadVars,
                   dotVars, mainVars>>

\* lines 131-141: the SIMD loop ends and the results are printed
bench_simd_end ==
    /\ prog = "benchmark" /\ pc = "simd_loop"
    /\ ~bench_loop_cond(bench_i, iterations)
    /\ pc' = "done"
    /\ UNCHANGED <<prog, benchVars,
                   allocVars, memVars, imageVars, grayVars, lsVars, condVars, quadVars,
                   dotVars, mainVars>>

\* benchmark_comparison, lines 107-142
benchmark_comparison ==
    \/ bench_warmup_scalar
    \/ bench_warmup_simd
    \/ bench_scalar_iter
    \/ bench_scalar_end
    \/ bench_simd_iter
    \/ bench_simd_end

\* main, lines 246-260 and 269-283: the image is copied, the callables are
\* made and benchmark_comparison is called
InitBenchmark ==
    /\ prog = "benchmark" /\ pc = "warmup_scalar"
    /\ bench \in {"brightness", "contrast"}
    /\ bench_size \in BenchSizes
    /\ iterations \in (-1)..MaxIterations
    /\ \E pat \in ImagePatterns : original_image = TestImage(bench_size, pat[1], pat[2])
    /\ processed_image = original_image
    /\ bench_i = 0
    /\ calls = <<>>

IdleBenchmark ==
    /\ bench = "" /\ bench_size = 0 /\ iterations = 0 /\ bench_i = 0
    /\ calls = <<>> /\ original_image = <<>> /\ processed_image = <<>>

----------------------------------------------------------------------------
(* 9. aligned_alloc<T> (simd_utils.h).  A size_t is 64 bits wide: it is kept *)
(* in four 16-bit limbs <<l0, l1, l2, l3>>, least significant first.         *)

Limb16 == Pow2(16)

\* a size_t below 2^16
U64(n) == <<n, 0, 0, 0>>

\* size * sizeof(T) in size_t arithmetic: the product modulo 2^64
U64Mul(v, k) ==
    LET p0 == v[1] * k
        p1 == v[2] * k + p0 \div Limb16
        p2 == v[3] * k + p1 \div Limb16
        p3 == v[4] * k + p2 \div Limb16
    IN  <<p0 % Limb16, p1 % Limb16, p2 % Limb16, p3 % Limb16>>

\* a power of two
IsPow2(a) == \E k \in 0..30 : a = Pow2(k)

\* posix_memalign(&ptr, alignment, bytes): the results the C library can
\* give, as records of the returned value and the pointer it leaves in ptr.
\* The alignment must be a power of two and a multiple of sizeof(void*)
\* (else EINVAL = 22, ptr untouched); the request can fail for lack of
\* memory (ENOMEM = 12, ptr untouched), and does when it does not fit the
\* address space; on success (0) the block's address is a multiple of the
\* alignment and not null.
posix_memalign(ptr, alignment, bytes) ==
    IF ~IsPow2(alignment) \/ alignment % 8 # 0
    THEN {[rc |-> 22, ptr |-> ptr]}
    ELSE {[rc |-> 12, ptr |-> ptr]}
         \cup (IF bytes[4] # 0 THEN {}
               ELSE {[rc |-> 0, ptr |-> alignment * m] : m \in 1..MaxPlacements})

\* a check that takes only the lack of memory for a failure
alloc_failed_only_nomem(rc) == rc = 12

\* line 148: posix_memalign(...) != 0
alloc_failed(rc) == rc # 0

\* lines 147-148: ptr = nullptr and the call of posix_memalign
alloc_call ==
    /\ prog = "alloc" /\ pc = "call"
    /\ alloc_bytes' = U64Mul(alloc_size, alloc_sizeof)
    /\ \E r \in posix_memalign(0, alloc_alignment, alloc_bytes') :
          /\ alloc_rc' = r.rc
          /\ alloc_ptr' = r.ptr
    /\ pc' = "check"
    /\ UNCHANGED <<prog, alloc_size, alloc_sizeof, alloc_alignment, alloc_outcome,
                   benchVars, memVars, imageVars, grayVars, lsVars, condVars, quadVars,
                   dotVars, mainVars>>

\* line 149: throw std::bad_alloc()
alloc_throw ==
    /\ prog = "alloc" /\ pc = "check"
    /\ alloc_failed(alloc_rc)
    /\ alloc_outcome' = "bad_alloc"
    /\ pc' = "done"
    /\ UNCHANGED <<prog, alloc_size, alloc_sizeof, alloc_alignment, alloc_bytes,
                   alloc_rc, alloc_ptr,
                   benchVars, memVars, imageVars, grayVars, lsVars, condVars, quadVars,
                   dotVars, mainVars>>

\* line 151: return static_cast<T*>(ptr)
alloc_return ==
    /\ prog = "alloc" /\ pc = "check"
    /\ ~alloc_failed(alloc_rc)
    /\ alloc_outcome' = "returned"
    /\ pc' = "done"
    /\ UNCHANGED <<prog, alloc_size, alloc_sizeof, alloc_alignment, alloc_bytes,
                   alloc_rc, alloc_ptr,
                   benchVars, memVars, imageVars, grayVars, lsVars, condVars, quadVars,
                   dotVars, mainVars>>

\* aligned_alloc<T>(size, alignment), lines 145-152
aligned_alloc == alloc_call \/ alloc_throw \/ alloc_return

\* the size arguments: 0, 8, 1024, 2^40, 2^61 + 2, 2^62, 2^62 + 8, 2^64 - 1
AllocSizes ==
    {U64(0), U64(8), U64(1024), <<0, 0, 256, 0>>, <<2, 0, 0, 8192>>,
     <<0, 0, 0, 16384>>, <<8, 0, 0, 16384>>,
     <<Limb16 - 1, Limb16 - 1, Limb16 - 1, Limb16 - 1>>}

\* the alignment arguments; 32 is the default
AllocAlignments == {0, 3, 4, 8, 16, 32, 48, 64}

\* a call aligned_alloc<T>(size, alignment) with T = float or double
InitAlloc ==
    /\ prog = "alloc" /\ pc = "call"
    /\ alloc_size \in AllocSizes
    /\ alloc_sizeof \in {4, 8}
    /\ alloc_alignment \in AllocAlignments
    /\ alloc_bytes = U64(0)
    /\ alloc_rc = 0
    /\ alloc_ptr = 0
    /\ alloc_outcome = "pending"

IdleAlloc ==
    /\ alloc_size = U64(0) /\ alloc_sizeof = 0 /\ alloc_alignment = 0
    /\ alloc_bytes = U64(0) /\ alloc_rc = 0 /\ alloc_ptr = 0
    /\ alloc_outcome = ""

----------------------------------------------------------------------------
(* 10. The vector loads and stores of the examples, by address.  A buffer    *)
(* is known by the way it was obtained; an access is logged with the line,  *)
(* the operation, the buffer and the byte address.                          *)

\* the buffers of each example and the way each was obtained; the dot
\* product has three scopes, main and the two functions with arrays of their
\* own
Buffers(ex) ==
    IF ex = "loading_data"
    THEN [aligned_data |-> "aligned_alloc", unaligned_ptr |-> "new_plus_one",
          large_array |-> "aligned_alloc"]
    ELSE IF ex = "conditional_code"
    THEN [data1 |-> "aligned_alloc", data2 |-> "aligned_alloc",
          result_simd |-> "aligned_alloc"]
    ELSE IF ex = "binding_with_unions" THEN [aligned_array |-> "aligned_alloc"]
    ELSE IF ex = "importing_simd" THEN [result |-> "aligned_alloc"]
    ELSE IF ex = "initializing_data" THEN [short_array |-> "stack"]
    ELSE IF ex = "image_processing" THEN [image |-> "new"]
    ELSE IF ex = "quadratic_solver"
    THEN [a |-> "aligned_alloc", b |-> "aligned_alloc", c |-> "aligned_alloc"]
    ELSE IF ex = "simple_maths" THEN [data1 |-> "stack", data2 |-> "stack"]
    ELSE IF ex = "dot_product" THEN [simd_results |-> "stack", results |-> "stack"]
    ELSE IF ex = "dot_product.simdDotProduct8"
    THEN [x1 |-> "stack", y1 |-> "stack", z1 |-> "stack",
          x2 |-> "stack", y2 |-> "stack", z2 |-> "stack"]
    ELSE [vectors1_x |-> "vector", vectors1_y |-> "vector", vectors1_z |-> "vector",
          vectors2_x |-> "vector", vectors2_y |-> "vector", vectors2_z |-> "vector",
          result_array |-> "stack"]

\* 04_image_processing lines 76-85 and 113-131: the loads and stores of
\* adjust_brightness_simd, one pair for each i = 0, 32, ... with
\* i <= size - 32, and then those of enhance_contrast_simd, one pair for each
\* i = 0, 8, ... with i <= size - 8; main hands both the same buffer and the
\* same size n
image_accesses(n) ==
    LET wide == IF n >= 32 THEN (n - 32) \div 32 + 1 ELSE 0
        narrow == IF n >= 8 THEN (n - 8) \div 8 + 1 ELSE 0
    IN  [k \in 1..(2 * wide) |->
            IF k % 2 = 1 THEN <<78, "loadu_si256", "image", 8 * ((k - 1) \div 2)>>
            ELSE <<84, "storeu_si256", "image", 8 * ((k - 1) \div 2)>>]
        \o
        [k \in 1..(2 * narrow) |->
            IF k % 2 = 1 THEN <<115, "loadl_epi64", "image", 2 * ((k - 1) \div 2)>>
            ELSE <<130, "storel_epi64", "image", 2 * ((k - 1) \div 2)>>]

\* part_003 lines 164-176: simdDotProductLarge on arrays of n vectors:
\* the six loads of simdDotProductSoA8 (lines 127-132) for each of the
\* n / 8 blocks, then the store of the sums
dot_large_accesses(n) ==
    LET blocks == n \div 8
        arrays == <<"vectors1_x", "vectors1_y", "vectors1_z",
                    "vectors2_x", "vectors2_y", "vectors2_z">>
    IN  [k \in 1..(6 * blocks) |->
            <<127 + ((k - 1) % 6), "loadu_ps", arrays[((k - 1) % 6) + 1],
              8 * ((k - 1) \div 6)>>]
        \o << <<176, "storeu_ps", "result_array", 0>> >>

\* the vector loads and stores of each example outside the stream-store
\* loop, in program order: line, operation, buffer, offset in units of 4
\* bytes
Accesses(ex, n) ==
    IF ex = "loading_data"
    THEN << <<49, "load_ps", "aligned_data", 0>>,
            <<53, "loadu_ps", "unaligned_ptr", 0>>,
            <<63, "load_ps", "aligned_data", 0>>,
            <<72, "loadu_ps", "unaligned_ptr", 0>>,
            <<90, "maskload_ps", "aligned_data", 0>>,
            <<104, "store_ps", "aligned_data", 0>>,
            <<113, "storeu_ps", "unaligned_ptr", 0>>,
            <<127, "store_ps", "aligned_data", 0>>,
            <<134, "storeu_ps", "unaligned_ptr", 0>>,
            <<156, "maskstore_ps", "aligned_data", 0>> >>
    ELSE IF ex = "conditional_code"
    THEN << <<45, "load_ps", "data1", 0>>,
            <<46, "load_ps", "data2", 0>>,
            <<77, "store_ps", "result_simd", 0>>,
            <<144, "store_ps", "result_simd", 0>>,
            <<213, "store_ps", "result_simd", 0>> >>
    ELSE IF ex = "binding_with_unions"
    THEN << <<105, "store_ps", "aligned_array", 0>>,
            <<120, "load_ps", "aligned_array", 0>> >>
    ELSE IF ex = "importing_simd"
    THEN << <<90, "store_ps", "result", 0>> >>
    ELSE IF ex = "initializing_data"
    THEN << <<222, "storeu_si256", "short_array", 0>> >>
    ELSE IF ex = "image_processing" THEN image_accesses(n)
    ELSE IF ex = "quadratic_solver"
    THEN << <<104, "loadu_ps", "a", 0>>,
            <<105, "loadu_ps", "b", 0>>,
            <<106, "loadu_ps", "c", 0>> >>
    ELSE IF ex = "simple_maths"
    THEN << <<350, "loadu_ps", "data1", 0>>,
            <<351, "loadu_ps", "data2", 0>> >>
    ELSE IF ex = "dot_product"
    THEN << <<220, "storeu_ps", "simd_results", 0>>,
            <<259, "storeu_ps", "results", 0>> >>
    ELSE IF ex = "dot_product.simdDotProduct8"
    THEN << <<108, "loadu_ps", "x1", 0>>,
            <<109, "loadu_ps", "y1", 0>>,
            <<110, "loadu_ps", "z1", 0>>,
            <<111, "loadu_ps", "x2", 0>>,
            <<112, "loadu_ps", "y2", 0>>,
            <<113, "loadu_ps", "z2", 0>> >>
    ELSE dot_large_accesses(n)

MemExamples ==
    {"loading_data", "conditional_code", "binding_with_unions", "importing_simd",
     "initializing_data", "image_processing", "quadratic_solver", "simple_maths",
     "dot_product", "dot_product.simdDotProduct8",
     "dot_product.simdDotProductLarge"}

\* an allocator that gives malloc's 16-byte alignment whatever is asked
aligned_alloc_addrs_malloc(alignment) == {16 * m : m \in 1..MaxPlacements}

\* the addresses aligned_alloc<float>(n, alignment) can return
aligned_alloc_addrs(alignment) ==
    {r.ptr : r \in {q \in posix_memalign(0, alignment, U64(32)) : ~alloc_failed(q.rc)}}

\* the addresses a buffer obtained in the given way can have: aligned_alloc
\* with alignment 32; new[] and std::vector storage, which malloc aligns to
\* 16 bytes (16 and 32 stand for the odd and the even multiples of 16); new
\* float[] advanced by one float; an array on the stack, which the compiler
\* places at a multiple of 16 or of 32 and need only place at a multiple of
\* the element's alignment (the address 4 stands for those)
BufferAddrs(how) ==
    IF how = "aligned_alloc" THEN aligned_alloc_addrs(32)
    ELSE IF how \in {"new", "vector"} THEN {16, 32}
    ELSE IF how = "new_plus_one" THEN {16 + 4, 32 + 4}
    ELSE {4, 16, 32}

\* &buffer[off] for a buffer of floats (for the byte image: &image[4 * off])
elem_addr(base, off) == base + 4 * off

\* the log entry of one access
LogEntry(line, op, buf, off) ==
    [line |-> line, op |-> op, buffer |-> buf, off |-> off,
     addr |-> elem_addr(buf_addr[buf], off)]

\* the allocator or the compiler places the example's next buffer
mem_place ==
    /\ prog = "memory" /\ pc = "place"
    /\ LET rest == DOMAIN Buffers(mem_example) \ DOMAIN buf_addr
           nb == CHOOSE b \in rest : TRUE
       IN  /\ rest # {}
           /\ \E addr \in BufferAddrs(Buffers(mem_example)[nb]) :
                 buf_addr' = [b \in DOMAIN buf_addr \cup {nb} |->
                                 IF b = nb THEN addr ELSE buf_addr[b]]
           /\ pc' = IF rest = {nb} THEN "straight" ELSE "place"
    /\ UNCHANGED <<prog, mem_example, large_size, mem_size, mem_k, mem_i,
                   mem_log,
                   benchVars, allocVars, imageVars, grayVars, lsVars, condVars,
                   quadVars, dotVars, mainVars>>

\* the next load or store of the straight-line part
mem_access ==
    /\ prog = "memory" /\ pc = "straight"
    /\ mem_k <= Len(Accesses(mem_example, mem_size))
    /\ LET acc == Accesses(mem_example, mem_size)[mem_k]
       IN  mem_log' = mem_log \cup {LogEntry(acc[1], acc[2], acc[3], acc[4])}
    /\ mem_k' = mem_k + 1
    /\ UNCHANGED <<prog, pc, mem_example, buf_addr, large_size, mem_size,
                   mem_i,
                   benchVars, allocVars, imageVars, grayVars, lsVars, condVars,
                   quadVars, dotVars, mainVars>>

\* part_000 line 182: the stream-store loop is entered
mem_stream_enter ==
    /\ prog = "memory" /\ pc = "straight"
    /\ mem_k > Len(Accesses(mem_example, mem_size))
    /\ mem_example = "loading_data"
    /\ mem_i' = 0
    /\ pc' = "stream"
    /\ UNCHANGED <<prog, mem_example, buf_addr, large_size, mem_size, mem_k,
                   mem_log,
                   benchVars, allocVars, imageVars, grayVars, lsVars, condVars,
                   quadVars, dotVars, mainVars>>

\* part_000 lines 182-191: one iteration of the stream-store loop
mem_stream_iter ==
    /\ prog = "memory" /\ pc = "stream"
    /\ mem_i < large_size
    /\ mem_log' = mem_log \cup {LogEntry(184, "loadu_ps", "large_array", mem_i),
                                LogEntry(190, "stream_ps", "large_array", mem_i)}
    /\ mem_i' = mem_i + 8
    /\ UNCHANGED <<prog, pc, mem_example, buf_addr, large_size, mem_size, mem_k,
                   benchVars, allocVars, imageVars, grayVars, lsVars, condVars,
                   quadVars, dotVars, mainVars>>

\* the example has made its last access
mem_finish ==
    /\ prog = "memory"
    /\ \/ pc = "stream" /\ ~(mem_i < large_size)
       \/ pc = "straight" /\ mem_k > Len(Accesses(mem_example, mem_size))
                          /\ mem_example # "loading_data"
    /\ pc' = "done"
    /\ UNCHANGED <<prog, memVars,
                   benchVars, allocVars, imageVars, grayVars, lsVars, condVars,
                   quadVars, dotVars, mainVars>>

memory_accesses ==
    \/ mem_place
    \/ mem_access
    \/ mem_stream_enter
    \/ mem_stream_iter
    \/ mem_finish

\* an example starts with none of its buffers placed
InitMemory ==
    /\ prog = "memory" /\ pc = "place"
    /\ mem_example \in MemExamples
    /\ buf_addr = <<>>
    /\ \E blocks \in 0..MaxStreamBlocks :
          large_size = IF mem_example = "loading_data" THEN 8 * blocks ELSE 0
    /\ mem_size \in IF mem_example = "image_processing" THEN 0..MaxSize
                    ELSE IF mem_example = "dot_product.simdDotProductLarge"
                    THEN 0..MaxVectors
                    ELSE {0}
    /\ mem_k = 1
    /\ mem_i = 0
    /\ mem_log = {}

IdleMemory ==
    /\ mem_example = "" /\ buf_addr = <<>> /\ large_size = 0 /\ mem_size = 0
    /\ mem_k = 0 /\ mem_i = 0 /\ mem_log = {}

----------------------------------------------------------------------------
(* 11. The conditional-code example's main (03_Examples/01_conditional_code): *)
(* the four buffers are allocated, the callables of the three sections are    *)
(* invoked by main and by benchmark_comparison, the bitmasks and the blended  *)
(* register are computed, and the buffers are freed.                          *)

\* lines 31-34 and 261-264: the buffers in the order of allocation and release
CondBuffers == <<"data1", "data2", "result_scalar", "result_simd">>

\* the sections that define a scalar and a SIMD callable, in program order
CondSections == <<"clamp", "filter", "complex">>

\* the memory the callables capture by reference
Mem == [data1 |-> data1, data2 |-> data2,
        result_scalar |-> result_scalar, result_simd |-> result_simd]

\* a movemask that takes lane 0 for the highest bit
mm256_movemask_ps_reversed(m) ==
    LET bit(l) == IF m[l] < 0 THEN Pow2(7 - l) ELSE 0
    IN  bit(0) + bit(1) + bit(2) + bit(3) + bit(4) + bit(5) + bit(6) + bit(7)

\* _mm256_movemask_ps: bit l of the result is the sign bit of lane l
mm256_movemask_ps(m) ==
    LET bit(l) == IF m[l] < 0 THEN Pow2(l) ELSE 0
    IN  bit(0) + bit(1) + bit(2) + bit(3) + bit(4) + bit(5) + bit(6) + bit(7)

\* lines 60-64: scalar_clamp on the captured memory
scalar_clamp(m) ==
    [m EXCEPT !.result_scalar =
        [k \in Lanes |-> std_max(5, std_min(30, m.data2[k]))]]

\* lines 67-78: simd_clamp on the captured memory and registers
simd_clamp(m, vec1, vec2) ==
    LET min_val == mm256_set1_ps(5)
        max_val == mm256_set1_ps(30)
        upper_clamped == mm256_min_ps(vec2, max_val)
        result == mm256_max_ps(upper_clamped, min_val)
    IN  [m EXCEPT !.result_simd = mm256_store_ps(m.result_simd, result)]

\* lines 130-138: scalar_filter
scalar_filter(m) ==
    [m EXCEPT !.result_scalar =
        [k \in Lanes |-> IF m.data2[k] > 0 THEN m.data2[k] ELSE 0]]

\* a filter that keeps the values of the lanes that fail the test
simd_filter_keep(m, vec1, vec2) ==
    [m EXCEPT !.result_simd = mm256_store_ps(m.result_simd, vec2)]

\* lines 141-145: simd_filter.  The AND acts on bit patterns; every mask lane
\* is all-ones or zero, so it keeps the lane's value or gives +0.0
simd_filter(m, vec1, vec2) ==
    LET zero == mm256_setzero_ps
        msk == mm256_cmp_ps_GT(vec2, zero)
        result == mm256_and_ps(vec2, msk)
    IN  [m EXCEPT !.result_simd = mm256_store_ps(m.result_simd, result)]

\* a complex filter that adds the kept values to what the buffer holds
scalar_complex_accumulate(m) ==
    [m EXCEPT !.result_scalar =
        [k \in Lanes |-> m.result_scalar[k] +
                         (IF m.data2[k] > 0 /\ m.data2[k] > m.data1[k]
                          THEN m.data2[k] ELSE 0)]]

\* lines 195-203: scalar_complex
scalar_complex(m) ==
    [m EXCEPT !.result_scalar =
        [k \in Lanes |-> IF m.data2[k] > 0 /\ m.data2[k] > m.data1[k]
                         THEN m.data2[k] ELSE 0]]

\* lines 206-214: simd_complex
simd_complex(m, vec1, vec2) ==
    LET zero == mm256_setzero_ps
        pos_mask == mm256_cmp_ps_GT(vec2, zero)
        gt_mask == mm256_cmp_ps_GT(vec2, vec1)
        combined == mm256_and_ps(pos_mask, gt_mask)
        result == mm256_blendv_ps(zero, vec2, combined)
    IN  [m EXCEPT !.result_simd = mm256_store_ps(m.result_simd, result)]

\* the scalar callable of a section
cond_scalar_func(sec, m) ==
    IF sec = "clamp" THEN scalar_clamp(m)
    ELSE IF sec = "filter" THEN scalar_filter(m)
    ELSE scalar_complex(m)

\* the SIMD callable of a section
cond_simd_func(sec, m, vec1, vec2) ==
    IF sec = "clamp" THEN simd_clamp(m, vec1, vec2)
    ELSE IF sec = "filter" THEN simd_filter(m, vec1, vec2)
    ELSE simd_complex(m, vec1, vec2)

\* the buffers a callable dereferences
Touched(sec, impl) ==
    IF impl = "simd" THEN {"result_simd"}
    ELSE IF sec = "complex" THEN {"data1", "data2", "result_scalar"}
    ELSE {"data2", "result_scalar"}

\* the number of timed iterations benchmark_comparison is called with (the
\* default of simd_utils.h line 112, scaled down)
CondIterations == MaxIterations

\* the variables of the other programs
condMainUnchanged ==
    UNCHANGED <<prog, imageVars, grayVars, lsVars, quadVars, dotVars, benchVars,
                allocVars, memVars>>

\* lines 31-34: one aligned_alloc<float>(8) that returns
main_alloc ==
    /\ prog = "condmain" /\ pc = "alloc" /\ main_i <= 4
    /\ \E r \in posix_memalign(0, 32, U64Mul(U64(8), 4)) :
          /\ ~alloc_failed(r.rc)
          /\ heap' = [heap EXCEPT ![CondBuffers[main_i]] = "live"]
    /\ main_i' = main_i + 1
    /\ UNCHANGED <<pc, condVars, section, frees, stale, main_exit, bitmask,
                   combined_bitmask, blended, cond_log>>
    /\ condMainUnchanged

\* lines 31-34: one aligned_alloc<float>(8) that throws std::bad_alloc; main
\* has no handler, so the exception leaves main and the program terminates
main_alloc_throw ==
    /\ prog = "condmain" /\ pc = "alloc" /\ main_i <= 4
    /\ \E r \in posix_memalign(0, 32, U64Mul(U64(8), 4)) : alloc_failed(r.rc)
    /\ main_exit' = "terminated"
    /\ pc' = "done"
    /\ UNCHANGED <<condVars, section, main_i, heap, frees, stale, bitmask,
                   combined_bitmask, blended, cond_log>>
    /\ condMainUnchanged

\* what the result buffers may hold before their first store: aligned_alloc
\* does not initialise the block
Uninitialized == {[k \in Lanes |-> 0], [k \in Lanes |-> 7 - 3 * k]}

\* lines 37-46: the data are written and loaded into the registers; the log
\* starts with the memory as it is before the first callable runs
main_fill ==
    /\ prog = "condmain" /\ pc = "alloc" /\ main_i = 5
    /\ \E d1 \in CondInputs, d2 \in CondInputs :
          /\ data1' = d1 /\ data2' = d2
          /\ vector1' = mm256_load_ps(d1)
          /\ vector2' = mm256_load_ps(d2)
    /\ result_scalar' \in Uninitialized
    /\ result_simd' \in Uninitialized
    /\ cond_log' = <<[f |-> <<"main", "fill">>,
                      mem |-> [data1 |-> data1', data2 |-> data2',
                               result_scalar |-> result_scalar',
                               result_simd |-> result_simd']]>>
    /\ stale' = stale \cup {b \in {"data1", "data2"} : heap[b] = "freed"}
    /\ section' = "clamp"
    /\ pc' = "first_scalar"
    /\ UNCHANGED <<positive_mask, greater_mask, combined_mask, blend_mask,
                   main_i, heap, frees, main_exit, bitmask, combined_bitmask,
                   blended>>
    /\ condMainUnchanged

\* the position after a call of the scalar callable
after_scalar(p) ==
    IF p = "first_scalar" THEN "first_simd"
    ELSE IF p = "warmup_scalar" THEN "warmup_simd"
    ELSE "scalar_loop"

\* the position after a call of the SIMD callable
after_simd(p) ==
    IF p = "first_simd" THEN "warmup_scalar"
    ELSE IF p = "warmup_simd" THEN "scalar_loop"
    ELSE "simd_loop"

\* lines 81, 148, 217 and simd_utils.h lines 115, 120-122: the section's
\* scalar callable is invoked
main_call_scalar ==
    /\ prog = "condmain"
    /\ pc \in {"first_scalar", "warmup_scalar", "scalar_loop"}
    /\ pc = "scalar_loop" => bench_loop_cond(main_i, CondIterations)
    /\ LET m == cond_scalar_func(section, Mem)
       IN  /\ data1' = m.data1 /\ data2' = m.data2
           /\ result_scalar' = m.result_scalar /\ result_simd' = m.result_simd
           /\ cond_log' = Append(cond_log, [f |-> <<section, "scalar">>, mem |-> m])
    /\ stale' = stale \cup {b \in Touched(section, "scalar") : heap[b] = "freed"}
    /\ main_i' = IF pc = "scalar_loop" THEN main_i + 1 ELSE 0
    /\ pc' = after_scalar(pc)
    /\ UNCHANGED <<vector1, vector2, positive_mask, greater_mask, combined_mask,
                   blend_mask, section, heap, frees, main_exit, bitmask,
                   combined_bitmask, blended>>
    /\ condMainUnchanged

\* lines 82, 149, 218 and simd_utils.h lines 116, 128-130: the section's SIMD
\* callable is invoked
main_call_simd ==
    /\ prog = "condmain"
    /\ pc \in {"first_simd", "warmup_simd", "simd_loop"}
    /\ pc = "simd_loop" => bench_loop_cond(main_i, CondIterations)
    /\ LET m == cond_simd_func(section, Mem, vector1, vector2)
       IN  /\ data1' = m.data1 /\ data2' = m.data2
           /\ result_scalar' = m.result_scalar /\ result_simd' = m.result_simd
           /\ cond_log' = Append(cond_log, [f |-> <<section, "simd">>, mem |-> m])
    /\ stale' = stale \cup {b \in Touched(section, "simd") : heap[b] = "freed"}
    /\ main_i' = IF pc = "simd_loop" THEN main_i + 1 ELSE 0
    /\ pc' = after_simd(pc)
    /\ UNCHANGED <<vector1, vector2, positive_mask, greater_mask, combined_mask,
                   blend_mask, section, heap, frees, main_exit, bitmask,
                   combined_bitmask, blended>>
    /\ condMainUnchanged

\* simd_utils.h lines 120-127: the scalar loop of benchmark_comparison ends
main_scalar_loop_end ==
    /\ prog = "condmain" /\ pc = "scalar_loop"
    /\ ~bench_loop_cond(main_i, CondIterations)
    /\ main_i' = 0
    /\ pc' = "simd_loop"
    /\ UNCHANGED <<condVars, section, heap, frees, stale, main_exit, bitmask,
                   combined_bitmask, blended, cond_log>>
    /\ condMainUnchanged

\* simd_utils.h lines 128-141 and main lines 108-120, 175-190, 244-252: the
\* SIMD loop ends, benchmark_comparison returns and main runs up to the next
\* section's callables: the positive mask and its bitmask before the filter,
\* the combined mask and its bitmask before the complex filter, the blend
\* after it
main_next_section ==
    /\ prog = "condmain" /\ pc = "simd_loop"
    /\ ~bench_loop_cond(main_i, CondIterations)
    /\ LET zero == mm256_setzero_ps
           positive_mask2 == mm256_cmp_ps_GT(vector2, zero)
           gt == mm256_cmp_ps_GT(vector2, vector1)
           vector3 == ProgVector3
           threshold == mm256_set1_ps(50)
           bm == mm256_cmp_ps_GT(vector3, threshold)
       IN  \/ /\ section = "clamp"
              /\ positive_mask' = mm256_cmp_ps_GT(vector2, zero)
              /\ bitmask' = mm256_movemask_ps(positive_mask')
              /\ section' = "filter" /\ pc' = "first_scalar"
              /\ UNCHANGED <<greater_mask, combined_mask, blend_mask,
                             combined_bitmask, blended>>
           \/ /\ section = "filter"
              /\ greater_mask' = gt
              /\ combined_mask' = mm256_and_ps(positive_mask2, gt)
              /\ combined_bitmask' = mm256_movemask_ps(combined_mask')
              /\ section' = "complex" /\ pc' = "first_scalar"
              /\ UNCHANGED <<positive_mask, blend_mask, bitmask, blended>>
           \/ /\ section = "complex"
              /\ blend_mask' = bm
              /\ blended' = mm256_blendv_ps(vector1, vector2, bm)
              /\ section' = "blend" /\ pc' = "free"
              /\ UNCHANGED <<positive_mask, greater_mask, combined_mask,
                             bitmask, combined_bitmask>>
    /\ main_i' = IF section = "complex" THEN 1 ELSE 0
    /\ UNCHANGED <<data1, data2, vector1, vector2, result_scalar, result_simd,
                   heap, frees, stale, main_exit, cond_log>>
    /\ condMainUnchanged

\* lines 261-264: one call of free
main_free ==
    /\ prog = "condmain" /\ pc = "free" /\ main_i <= 4
    /\ heap' = [heap EXCEPT ![CondBuffers[main_i]] = "freed"]
    /\ frees' = [frees EXCEPT ![CondBuffers[main_i]] = @ + 1]
    /\ main_i' = main_i + 1
    /\ UNCHANGED <<pc, condVars, section, stale, main_exit, bitmask,
                   combined_bitmask, blended, cond_log>>
    /\ condMainUnchanged

\* line 266: return 0
main_return ==
    /\ prog = "condmain" /\ pc = "free" /\ main_i = 5
    /\ main_exit' = "returned"
    /\ pc' = "done"
    /\ UNCHANGED <<condVars, section, main_i, heap, frees, stale, bitmask,
                   combined_bitmask, blended, cond_log>>
    /\ condMainUnchanged

\* main of the conditional-code example, lines 25-267
conditional_code_main ==
    \/ main_alloc
    \/ main_alloc_throw
    \/ main_fill
    \/ main_call_scalar
    \/ main_call_simd
    \/ main_scalar_loop_end
    \/ main_next_section
    \/ main_free
    \/ main_return

\* line 25: main is entered, nothing is allocated
InitCondMain ==
    /\ prog = "condmain" /\ pc = "alloc"
    /\ section = "" /\ main_i = 1
    /\ heap = [b \in {CondBuffers[k] : k \in 1..4} |-> "unallocated"]
    /\ frees = [b \in {CondBuffers[k] : k \in 1..4} |-> 0]
    /\ stale = {}
    /\ main_exit = "running"
    /\ bitmask = 0 /\ combined_bitmask = 0 /\ blended = <<>>
    /\ cond_log = <<>>
    /\ IdleCond

IdleCondMain ==
    /\ section = "" /\ main_i = 0 /\ heap = <<>> /\ frees = <<>> /\ stale = {}
    /\ main_exit = "" /\ bitmask = 0 /\ combined_bitmask = 0 /\ blended = <<>>
    /\ cond_log = <<>>

IdleUtil == IdleBenchmark /\ IdleAlloc /\ IdleMemory /\ IdleCondMain

----------------------------------------------------------------------------
Init ==
    \/ InitBrightness /\ IdleGray /\ IdleLoadStore /\ IdleCond /\ IdleQuad /\ IdleDot /\ IdleUtil
    \/ InitBrightnessRange /\ IdleGray /\ IdleLoadStore /\ IdleCond /\ IdleQuad /\ IdleDot /\ IdleUtil
    \/ InitContrast /\ IdleGray /\ IdleLoadStore /\ IdleCond /\ IdleQuad /\ IdleDot /\ IdleUtil
    \/ InitGray /\ IdleLoadStore /\ IdleCond /\ IdleQuad /\ IdleDot /\ IdleUtil
    \/ InitLoadStore /\ IdleImage /\ IdleGray /\ IdleCond /\ IdleQuad /\ IdleDot /\ IdleUtil
    \/ InitMaskOps /\ IdleImage /\ IdleGray /\ IdleCond /\ IdleQuad /\ IdleDot /\ IdleUtil
    \/ InitQuad /\ IdleImage /\ IdleGray /\ IdleLoadStore /\ IdleCond /\ IdleDot /\ IdleUtil
    \/ InitDot /\ IdleImage /\ IdleGray /\ IdleLoadStore /\ IdleCond /\ IdleQuad /\ IdleUtil
    \/ InitDotSingle /\ IdleImage /\ IdleGray /\ IdleLoadStore /\ IdleCond /\ IdleQuad /\ IdleUtil
    \/ InitDotShort /\ IdleImage /\ IdleGray /\ IdleLoadStore /\ IdleCond /\ IdleQuad /\ IdleUtil
    \/ InitAos /\ IdleImage /\ IdleGray /\ IdleLoadStore /\ IdleCond /\ IdleQuad /\ IdleUtil
    \/ InitBenchmark /\ IdleImage /\ IdleGray /\ IdleLoadStore /\ IdleCond /\ IdleQuad
                     /\ IdleDot /\ IdleAlloc /\ IdleMemory /\ IdleCondMain
    \/ InitAlloc /\ IdleImage /\ IdleGray /\ IdleLoadStore /\ IdleCond /\ IdleQuad
                 /\ IdleDot /\ IdleBenchmark /\ IdleMemory /\ IdleCondMain
    \/ InitMemory /\ IdleImage /\ IdleGray /\ IdleLoadStore /\ IdleCond /\ IdleQuad
                  /\ IdleDot /\ IdleBenchmark /\ IdleAlloc /\ IdleCondMain
    \/ InitCondMain /\ IdleImage /\ IdleGray /\ IdleLoadStore /\ IdleQuad /\ IdleDot
                    /\ IdleBenchmark /\ IdleAlloc /\ IdleMemory


Next ==
    \/ adjust_brightness_simd
    \/ enhance_contrast_simd
    \/ convert_to_grayscale_simd
    \/ loading_data
    \/ masked_operations
    \/ quadratic_solver
    \/ simdDotProductLarge
    \/ single_dot_product
    \/ simd_aos_benchmark
    \/ benchmark_comparison
    \/ aligned_alloc
    \/ memory_accesses
    \/ conditional_code_main

Spec == Init /\ [][Next]_vars

\* the single dot product alone (part_003 lines 291-295), on more vectors
InitSingleDot ==
    /\ InitDotSingleOn(AllSingleInputs)
    /\ IdleImage /\ IdleGray /\ IdleLoadStore /\ IdleCond /\ IdleQuad /\ IdleUtil

SpecSingleDot == InitSingleDot /\ [][single_dot_product]_vars

----------------------------------------------------------------------------
(* Claims *)

\* the lane width of the running 1-D kernel and the end of its vector range
LaneWidth == IF prog = "brightness" THEN BrightnessLanes ELSE FloatLanes
FullEnd == size - (size % LaneWidth)

\* C1: for every size N >= 0 the brightness (W = 32) and contrast (W = 8)
\* kernels split the index range: the vector loop accesses exactly
\* [0, N - N mod W) in groups of W, the remainder loop exactly
\* [N - N mod W, N); every index below N is written exactly once, no index
\* >= N is read or written, and with N < W the vector body never runs.
C1_IndexSplit ==
    prog \in {"brightness", "contrast"} =>
        /\ vecIdx = 0..(vecIters * LaneWidth - 1)
        /\ vecIdx \subseteq 0..(FullEnd - 1)
        /\ remIdx \subseteq FullEnd..(size - 1)
        /\ (size < LaneWidth => vecIters = 0)
        /\ \A k \in DOMAIN wcount : wcount[k] <= 1
        /\ pc = "done" =>
              /\ vecIdx = 0..(FullEnd - 1)
              /\ remIdx = FullEnd..(size - 1)
              /\ vecIters = size \div LaneWidth
              /\ \A k \in DOMAIN wcount : wcount[k] = IF k < size THEN 1 ELSE 0

C1_Witness ==
    /\ prog = "brightness" /\ pc = "done"
    /\ vecIters = 2 /\ remIdx # {} /\ size % 32 # 0

\* C2: for every size, buffer and brightness (negative, zero, positive, above
\* 255) adjust_brightness_simd leaves the buffer exactly as
\* adjust_brightness_scalar does.
C2_BrightnessEqualsScalar ==
    (prog = "brightness" /\ pc = "done") =>
        image = adjust_brightness_scalar(image0, size, brightness)

\* C3: for every N that is not a multiple of the lane width, the last
\* N mod W elements the SIMD kernels write equal what the scalar kernel
\* computes for those indices, for every pixel value and every parameter.
C3_RemainderEqualsScalar ==
    /\ (prog = "brightness" /\ pc = "done") =>
          /\ \A k \in FullEnd..(size - 1) :
                image[k] = adjust_brightness_scalar(image0, size, brightness)[k]
          /\ \A p \in 0..255 :
                brightness_remainder_elem(p, brightness)
                    = brightness_scalar_elem(p, brightness)
    /\ (prog = "contrast" /\ pc = "done") =>
          /\ \A k \in FullEnd..(size - 1) :
                image[k] = enhance_contrast_scalar(image0, size, contrast)[k]
          /\ \A p \in 0..255 :
                contrast_remainder_elem(p, contrast) = contrast_scalar_elem(p, contrast)

C3_Witness ==
    /\ prog = "contrast" /\ pc = "done"
    /\ size % 8 = 5 /\ vecIters >= 1
    /\ Cardinality(remIdx) = 5
    /\ \E k \in remIdx : image[k] # image0[k]

\* C4: a kernel called with N = 0 is a no-op and not an error: the brightness
\* and contrast kernels with size 0 and the grayscale kernel with width 0 or
\* height 0 read and write no element and leave every buffer unchanged, and
\* simdDotProductLarge on empty arrays reads no element and returns 0.
C4_ZeroSizeNoOp ==
    /\ (prog \in {"brightness", "contrast"} /\ size = 0) =>
          /\ image = image0
          /\ vecIdx = {} /\ remIdx = {} /\ vecIters = 0
          /\ \A k \in DOMAIN wcount : wcount[k] = 0
          /\ pc # "done" => ENABLED Next
    /\ (prog = "gray" /\ (width = 0 \/ height = 0)) =>
          /\ dst = dst0
          /\ srcReads = {} /\ vecIdx = {} /\ remIdx = {}
          /\ \A k \in DOMAIN wcount : wcount[k] = 0
          /\ pc # "done" => ENABLED Next
    /\ (prog = "dot" /\ dot_size = 0) =>
          /\ dotReads = {}
          /\ pc = "done" => total = 0
          /\ pc # "done" => ENABLED Next

C4_Witness ==
    /\ prog = "gray" /\ pc = "done"
    /\ width = 0 /\ height = 2
    /\ DOMAIN dst # {} /\ DOMAIN src # {}

\* C5: for contrast = 1.5 and every pixel byte, enhance_contrast_simd stores
\* the same byte as enhance_contrast_scalar, in a full 8-element group
\* (round to nearest) and in the remainder (truncation).
C5_ContrastEqualsScalar ==
    (prog = "contrast" /\ contrast = 6 /\ pc = "done") =>
        image = enhance_contrast_scalar(image0, size, contrast)

\* C6: for every image convert_to_grayscale_simd writes for every pixel the
\* gray byte convert_to_grayscale_scalar writes, on the 4-pixel vector path
\* (round to nearest) and on the scalar edge fallback (truncation).
C6_GrayEqualsScalar ==
    (prog = "gray" /\ pc = "done") =>
        dst = convert_to_grayscale_scalar(src, dst0, width, height)

\* C7: a masked store leaves every element whose mask lane is false with its
\* previous value and sets every element whose mask lane is true to the
\* vector's lane; an all-true mask gives the unmasked store, an all-false
\* mask leaves the buffer unchanged; the program's case (buffer 0, lanes
\* 1,3,5,7 selected, vector [2,4,...,16]) ends as [0,4,0,8,0,12,0,16].
C7_MaskedStore ==
    (prog \in {"loadstore", "maskops"} /\ pc = "done") =>
        /\ \A l \in Lanes :
              aligned_data[l] = IF mask2[l] = AllOnes THEN test_vec[l] ELSE aligned0[l]
        /\ (\A l \in Lanes : mask2[l] = AllOnes) =>
              aligned_data = mm256_store_ps(aligned0, test_vec)
        /\ (\A l \in Lanes : mask2[l] = 0) => aligned_data = aligned0
        /\ (/\ aligned0 = [l \in Lanes |-> 0]
            /\ mask2 = ProgMask2
            /\ test_vec = ProgTestVec) =>
              aligned_data = Vec8(<<0, 4, 0, 8, 0, 12, 0, 16>>)

C7_Witness ==
    /\ prog = "maskops" /\ pc = "done"
    /\ aligned0 = [l \in Lanes |-> l + 1]
    /\ mask2 = ProgMask2 /\ test_vec = ProgTestVec
    /\ aligned_data = Vec8(<<1, 4, 3, 8, 5, 12, 7, 16>>)

\* the masks the running program has built so far
MasksInUse ==
    {m \in {mask, mask2, positive_mask, greater_mask, combined_mask, blend_mask,
            qmask} : m # <<>>}

\* C8: every mask the programs use has exactly 8 lanes, each all-ones or
\* all-zeros: the comparison masks (vector2 > 0, vector2 > vector1,
\* vector3 > 50, discriminant >= 0), the AND of two comparison masks and the
\* hand-built masks of the masked load and store.
C8_MaskLanes ==
    \A m \in MasksInUse :
        /\ DOMAIN m = Lanes
        /\ Cardinality(DOMAIN m) = 8
        /\ \A l \in DOMAIN m : m[l] \in {AllOnes, 0}

C8_Witness ==
    /\ prog = "condmain" /\ section = "blend"
    /\ \E l \in Lanes : positive_mask[l] = AllOnes /\ greater_mask[l] = 0
    /\ \E l \in Lanes : combined_mask[l] = AllOnes
    /\ \E l \in Lanes : blend_mask[l] = AllOnes

\* main of the conditional-code example has called both clamp callables and
\* none of the later sections' callables
ClampDone ==
    /\ prog = "condmain" /\ section = "clamp"
    /\ pc \in {"warmup_scalar", "warmup_simd", "scalar_loop", "simd_loop"}

\* C9 as stated: clamping a = [5,10,15,20,25,30,35,40] to [5,30] yields
\* [5,10,15,20,25,30,35,30] through the scalar and the SIMD clamp.
C9_ClampAsStated ==
    (ClampDone /\ data2 = ProgData1) =>
        /\ result_scalar = Vec8(<<5, 10, 15, 20, 25, 30, 35, 30>>)
        /\ result_simd = Vec8(<<5, 10, 15, 20, 25, 30, 35, 30>>)

\* C9 amended: clamping a = [5,10,15,20,25,30,35,40] to [5,30] yields
\* [5,10,15,20,25,30,30,30] through the scalar and the SIMD clamp (the
\* program's own input [-1,4,9,-16,25,-36,49,-64] yields
\* [5,5,9,5,25,5,30,5]), and the two outputs match element-wise.
C9_Clamp ==
    ClampDone =>
        /\ data2 = ProgData1 =>
              /\ result_scalar = Vec8(<<5, 10, 15, 20, 25, 30, 30, 30>>)
              /\ result_simd = Vec8(<<5, 10, 15, 20, 25, 30, 30, 30>>)
        /\ data2 = ProgData2 =>
              /\ result_scalar = Vec8(<<5, 5, 9, 5, 25, 5, 30, 5>>)
              /\ result_simd = Vec8(<<5, 5, 9, 5, 25, 5, 30, 5>>)
        /\ \A l \in Lanes : result_scalar[l] = result_simd[l]

C9_Witness ==
    /\ ClampDone /\ pc = "simd_loop"
    /\ data2 = ProgData1
    /\ result_scalar[6] = 30 /\ result_simd[6] = 30

\* the binary32 nearest to h/100, for |h| <= 300
F32OfHundredths(h) ==
    LET m == IF h < 0 THEN -h ELSE h
        tt == 31 - BitLen(m)
        t == IF m * Pow2(tt) >= 100 * Pow2(24) THEN tt - 1 ELSE tt
        n == m * Pow2(t)
        qr == RoundNearestEven(n \div 100, n % 100, 50)
        up == 54 - t
        mag == IF up >= 28 THEN <<qr * Pow2(up - 28), 0, FALSE>>
               ELSE <<qr \div Pow2(28 - up), (qr % Pow2(28 - up)) * Pow2(up), FALSE>>
    IN  IF h = 0 THEN <<0, 0, FALSE>>
        ELSE IF h < 0 THEN WNeg(mag) ELSE mag

\* the decimal literal, in tenths, that the float f was written as
TenthsOf(f) == CHOOSE k \in -10..10 : F32OfTenths(k) = f

\* the floats a and b compare equal with ==: the same number, where -0.0
\* and +0.0 are one number
WSame(a, b) == a[1] = b[1] /\ a[2] = b[2]

\* the floats a and b differ by at most u * 2^-26
WNear(a, b, u) ==
    LET diff == WSum(a, WNeg(b))
        mag == IF diff[1] < 0 THEN WNeg(diff) ELSE diff
    IN  mag[1] < u \/ (mag[1] = u /\ mag[2] = 0)

\* the float r is h/100 up to the rounding of binary32: it differs from the
\* binary32 nearest to h/100 by at most 2^-22
DotIs(r, h) == WNear(r, F32OfHundredths(h), Pow2(4))

\* x * o.x + y * o.y + z * o.z in exact arithmetic: no operation rounds
Vec3_dot_exact(v, o) ==
    WSum(WSum(WMul(v.x, o.x), WMul(v.y, o.y)), WMul(v.z, o.z))

\* simdDotProductSingle in exact arithmetic: the four lane products, the
\* fourth 0 * 0, added as the two horizontal adds group them, (x + y) + (z + 0)
simdDotProductSingle_exact(a, b) ==
    WSum(WSum(WMul(a.x, b.x), WMul(a.y, b.y)), WSum(WMul(a.z, b.z), WMul(0, 0)))

\* every product of Vec3::dot is the float -0.0
AllProductsNegZero(v, o) ==
    /\ F32Wide(WMul(v.x, o.x)) = <<0, 0, TRUE>>
    /\ F32Wide(WMul(v.y, o.y)) = <<0, 0, TRUE>>
    /\ F32Wide(WMul(v.z, o.z)) = <<0, 0, TRUE>>

\* C10: the dot product of v1 = (0.5, -0.3, 0.8) and v2 = (0.2, 0.7, -0.4)
\* is -0.43 = 0.1 - 0.21 - 0.32 through Vec3::dot and through
\* simdDotProductSingle, and for any two 3-vectors simdDotProductSingle,
\* which groups (x + y) + (z + 0), returns the value of Vec3::dot:
\*   - in exact arithmetic the two are the same value;
\*   - in binary32 simdDotProductSingle returns the number that Vec3::dot
\*     returns with its multiplications and additions rounded one by one,
\*     the same float bit for bit unless all three products are -0.0 (then
\*     Vec3::dot gives -0.0 and simdDotProductSingle +0.0);
\*   - a build that contracts Vec3::dot into fused multiply-adds is the only
\*     one whose Vec3::dot returns another number, at most 2^-23 away;
\*   - both results are the decimal dot product up to 2^-22.
C10_SingleDot ==
    (prog = "dotsingle" /\ pc = "done") =>
        LET t1 == Vec3(TenthsOf(v1.x), TenthsOf(v1.y), TenthsOf(v1.z))
            t2 == Vec3(TenthsOf(v2.x), TenthsOf(v2.y), TenthsOf(v2.z))
            h == t1.x * t2.x + t1.y * t2.y + t1.z * t2.z
        IN  /\ WSame(simdDotProductSingle_exact(v1, v2), Vec3_dot_exact(v1, v2))
            /\ WSame(simd_dot, Vec3_dot_separate(v1, v2))
            /\ simd_dot # Vec3_dot_separate(v1, v2) <=> AllProductsNegZero(v1, v2)
            /\ WSame(simd_dot, scalar_dot) \/ scalar_dot = Vec3_dot_contracted(v1, v2)
            /\ WNear(simd_dot, scalar_dot, Pow2(3))
            /\ DotIs(scalar_dot, h)
            /\ DotIs(simd_dot, h)
            /\ (t1 = ProgV1 /\ t2 = ProgV2) => h = 10 - 21 - 32

\* the program's vectors: simdDotProductSingle and Vec3::dot both return
\* -0.430000037
C10_Witness ==
    /\ prog = "dotsingle" /\ pc = "done"
    /\ v1 = Vec3OfTenths(ProgV1) /\ v2 = Vec3OfTenths(ProgV2)
    /\ simd_dot = <<-28856814, 0, FALSE>>
    /\ scalar_dot = simd_dot

\* the program's vectors in a build that contracts Vec3::dot: it returns
\* -0.430000007 and simdDotProductSingle -0.430000037
ContractedLastBit ==
    /\ prog = "dotsingle" /\ pc = "done"
    /\ v1 = Vec3OfTenths(ProgV1) /\ v2 = Vec3OfTenths(ProgV2)
    /\ scalar_dot = <<-28856812, 0, FALSE>>
    /\ simd_dot = <<-28856814, 0, FALSE>>

\* only zeros are multiplied by negative components: Vec3::dot returns -0.0
\* and simdDotProductSingle +0.0
ZeroDotSigns ==
    /\ prog = "dotsingle" /\ pc = "done"
    /\ scalar_dot = <<0, 0, TRUE>> /\ simd_dot = <<0, 0, FALSE>>

\* the number of vectors handed to the running dot-product reduction
NumVectors == Cardinality(DOMAIN vectors1)

\* the steps of simdDotProductLarge on n vectors, in the order of the claim
LargeOrder(n) ==
    [k \in 1..((n \div 8) + 1 + (n % 8)) |->
        IF k <= n \div 8 THEN "block"
        ELSE IF k = n \div 8 + 1 THEN "reduce"
        ELSE "rem"]

\* C11: for every input size simdDotProductLarge first adds all size/8 full
\* lane-groups lane-wise into the vector accumulator, the scalar total still
\* untouched, then reduces the accumulator to a scalar exactly once, then
\* adds the size mod 8 remainder elements to that scalar, last.
C11_LargeOrder ==
    prog = "dot" =>
        /\ Len(dotTrace) <= Len(LargeOrder(NumVectors))
        /\ \A k \in 1..Len(dotTrace) : dotTrace[k] = LargeOrder(NumVectors)[k]
        /\ pc = "blocks" => total = 0
        /\ pc = "done" => dotTrace = LargeOrder(NumVectors)

C11_Witness ==
    /\ prog = "dot" /\ pc = "done"
    /\ NumVectors = 17
    /\ dotTrace = <<"block", "block", "reduce", "rem">>
    /\ total # 0

\* the pairwise (tree) sum of 8 lanes: pairs, then pairs of pairs
PairwiseSum(r) ==
    F32IntAdd(F32IntAdd(F32IntAdd(r[0], r[1]), F32IntAdd(r[2], r[3])),
              F32IntAdd(F32IntAdd(r[4], r[5]), F32IntAdd(r[6], r[7])))

\* C12: after the block loop simdDotProductLarge reduces the 8 lanes of the
\* accumulator by pairwise (tree) summation: the scalar it holds right after
\* the reduction is the tree sum of the lanes, not the running total of the
\* lanes added one after another.
C12_PairwiseReduction ==
    (prog = "dot" /\ pc = "rem" /\ dotTrace # <<>>
        /\ dotTrace[Len(dotTrace)] = "reduce") =>
        total = PairwiseSum(sum)

\* C13: every reduction loop of the dot-product example, the loop of
\* simdDotProductLarge and the array-of-structures benchmark loop, reduces a
\* vector to a scalar at most once, and only after its last lane-group.
C13_ReduceOnce ==
    prog \in {"dot", "aos"} =>
        /\ Cardinality({k \in 1..Len(dotTrace) : dotTrace[k] = "reduce"}) <= 1
        /\ \A j, k \in 1..Len(dotTrace) :
              (j < k /\ dotTrace[j] = "reduce") => dotTrace[k] # "block"

\* the inputs on which binary32 arithmetic is exact: small integers
SmallInputs ==
    \A k \in DOMAIN vectors1 :
        \A c \in {vectors1[k].x, vectors1[k].y, vectors1[k].z,
                  vectors2[k].x, vectors2[k].y, vectors2[k].z} :
            c >= -64 /\ c <= 64

\* the sum of the dot products of the vectors k .. n-1, in the integers
RECURSIVE ExactDot(_, _, _)
ExactDot(vs1, vs2, k) ==
    IF k \notin DOMAIN vs1 THEN 0
    ELSE vs1[k].x * vs2[k].x + vs1[k].y * vs2[k].y + vs1[k].z * vs2[k].z
         + ExactDot(vs1, vs2, k + 1)

\* C14: for two arrays of n 3-vectors, n from 0 up to the bound, with exact
\* arithmetic, simdDotProductLarge on the structure-of-arrays form returns
\* the sum scalarDotProduct returns on the array-of-structures form, and
\* every vector index in [0, n) is read exactly once.
C14_LargeEqualsScalar ==
    (prog = "dot" /\ pc = "done" /\ SmallInputs) =>
        /\ total = scalarDotProduct(vectors1, vectors2)
        /\ total = ExactDot(vectors1, vectors2, 0)
        /\ dotReads = 0..(NumVectors - 1)
        /\ 8 * Cardinality({k \in 1..Len(dotTrace) : dotTrace[k] = "block"})
             + Cardinality({k \in 1..Len(dotTrace) : dotTrace[k] = "rem"})
           = NumVectors

C14_Witness ==
    /\ prog = "dot" /\ pc = "done" /\ SmallInputs
    /\ NumVectors = 13
    /\ total # 0
    /\ total = scalarDotProduct(vectors1, vectors2)

\* every component of the array is 0
AllZero(vs) == \A k \in DOMAIN vs : vs[k] = Vec3(0, 0, 0)

\* C15: for every length n >= 0, simdDotProductLarge and scalarDotProduct
\* return exactly 0 when every component of one of the two arrays is 0.
C15_ZeroInput ==
    (prog = "dot" /\ pc = "done" /\ (AllZero(vectors1) \/ AllZero(vectors2))) =>
        /\ total = 0
        /\ scalarDotProduct(vectors1, vectors2) = 0

C15_Witness ==
    /\ prog = "dot" /\ pc = "done"
    /\ NumVectors = 17
    /\ AllZero(vectors1) /\ ~AllZero(vectors2)
    /\ vectors2[1].x = 4096
    /\ total = 0

\* the calls benchmark_comparison makes for n iterations, in the claim's order
BenchOrder(n) ==
    LET m == IF n < 0 THEN 0 ELSE n
    IN  [k \in 1..(2 + 2 * m) |->
            IF k = 1 THEN [f |-> "scalar", timed |-> FALSE]
            ELSE IF k = 2 THEN [f |-> "simd", timed |-> FALSE]
            ELSE IF k <= 2 + m THEN [f |-> "scalar", timed |-> TRUE]
            ELSE [f |-> "simd", timed |-> TRUE]]

\* the number of calls of callable g made so far
CallsOf(g) == Cardinality({k \in 1..Len(calls) : calls[k].f = g})

\* C16: benchmark_comparison calls scalar_func once and simd_func once to
\* warm up, then scalar_func `iterations` times in a row, then simd_func
\* `iterations` times in a row: each callable is called max(iterations, 0) + 1
\* times, the timed phases do not interleave, the last call is to simd_func.
C16_BenchmarkOrder ==
    prog = "benchmark" =>
        /\ Len(calls) <= Len(BenchOrder(iterations))
        /\ \A k \in 1..Len(calls) :
              /\ calls[k].f = BenchOrder(iterations)[k].f
              /\ calls[k].timed = BenchOrder(iterations)[k].timed
        /\ pc = "done" =>
              /\ Len(calls) = Len(BenchOrder(iterations))
              /\ CallsOf("scalar") = (IF iterations < 0 THEN 0 ELSE iterations) + 1
              /\ CallsOf("simd") = (IF iterations < 0 THEN 0 ELSE iterations) + 1
              /\ calls[Len(calls)].f = "simd"

C16_Witness ==
    /\ prog = "benchmark" /\ pc = "done"
    /\ iterations = 3
    /\ Len(calls) = 8
    /\ calls[5].f = "scalar" /\ calls[6].f = "simd"

\* C17: in the brightness and contrast benchmarks every timed call of the
\* scalar callable and every timed call of the SIMD callable applies its
\* kernel to the original image.
C17_SameInput ==
    prog = "benchmark" =>
        \A k \in 1..Len(calls) :
            calls[k].timed => calls[k].input = original_image

\* the request was one the allocator had to reject as invalid
AllocInvalid == ~IsPow2(alloc_alignment) \/ alloc_alignment % 8 # 0

\* C18: aligned_alloc<T>(size, alignment) either returns a pointer that is
\* not null and whose address is a multiple of the alignment, or throws
\* std::bad_alloc when the allocator rejects the request; an alignment that
\* is not a power of two always throws.
C18_AlignedOrThrows ==
    (prog = "alloc" /\ pc = "done") =>
        /\ alloc_outcome \in {"returned", "bad_alloc"}
        /\ alloc_outcome = "returned" =>
              /\ alloc_rc = 0
              /\ alloc_ptr # 0
              /\ alloc_ptr % alloc_alignment = 0
        /\ alloc_outcome = "bad_alloc" => alloc_rc # 0
        /\ AllocInvalid => alloc_outcome = "bad_alloc"

C18_Witness ==
    /\ prog = "alloc" /\ pc = "done"
    /\ alloc_size = U64(8) /\ alloc_alignment = 32
    /\ alloc_outcome = "returned"
    /\ alloc_ptr = 64

\* size * sizeof(T) does not fit a size_t: the exact product has a carry out
\* of the highest limb
AllocOverflows ==
    LET p0 == alloc_size[1] * alloc_sizeof
        p1 == alloc_size[2] * alloc_sizeof + p0 \div Limb16
        p2 == alloc_size[3] * alloc_sizeof + p1 \div Limb16
        p3 == alloc_size[4] * alloc_sizeof + p2 \div Limb16
    IN  p3 \div Limb16 # 0

\* C19: when size * sizeof(T) exceeds the range of size_t, aligned_alloc<T>
\* throws; it does not return a block allocated for the wrapped product.
C19_OverflowThrows ==
    (prog = "alloc" /\ pc = "done" /\ AllocOverflows) =>
        alloc_outcome = "bad_alloc"

\* the operations that require a 32-byte aligned address, and the tolerant ones
AlignedOps == {"load_ps", "store_ps", "stream_ps"}
TolerantOps ==
    {"loadu_ps", "storeu_ps", "loadu_si256", "storeu_si256", "loadl_epi64",
     "storel_epi64"}

\* C20: every _mm256_load_ps, _mm256_store_ps and _mm256_stream_ps of the
\* examples is applied to an address that is a multiple of 32: a buffer from
\* aligned_alloc with alignment 32 at an element offset that is a multiple
\* of 8; a buffer not known to be 32-byte aligned (the pointer advanced by
\* one float, std::vector storage, stack arrays, new[] images) is accessed
\* only through loadu / storeu.
C20_AlignedAccess ==
    prog = "memory" =>
        \A e \in mem_log :
            /\ e.op \in AlignedOps =>
                  /\ e.addr % 32 = 0
                  /\ Buffers(mem_example)[e.buffer] = "aligned_alloc"
                  /\ e.off % 8 = 0
            /\ Buffers(mem_example)[e.buffer] # "aligned_alloc" =>
                  e.op \in TolerantOps

C20_Witness ==
    /\ prog = "memory" /\ pc = "done"
    /\ mem_example = "loading_data"
    /\ \E e \in mem_log : e.op = "stream_ps" /\ e.off = 16 /\ e.addr % 32 = 0
    /\ \E e \in mem_log : e.op = "loadu_ps" /\ e.buffer = "unaligned_ptr"
                            /\ e.addr % 32 # 0
    /\ \E e \in mem_log : e.op = "load_ps" /\ e.line = 49

\* C21: when the conditional-code program exits, by returning from main or
\* by a std::bad_alloc thrown from a later aligned_alloc, every buffer it
\* obtained from aligned_alloc has been released exactly once, and no buffer
\* was read or written after its release.
C21_ReleasedOnce ==
    (prog = "condmain" /\ main_exit \in {"returned", "terminated"}) =>
        /\ \A b \in DOMAIN heap :
              heap[b] # "unallocated" => heap[b] = "freed" /\ frees[b] = 1
        /\ stale = {}

\* C22: a call of simdDotProductLarge whose second array is shorter than the
\* first fails with a precondition error before any element is read: no
\* element of either array is read and the call does not return a total.
C22_MismatchRejected ==
    prog = "dotshort" => (dotReads = {} /\ pc # "done")

\* what each conditional kernel is to store in a lane holding d2, with d1 in
\* the same lane of the first array
CondExpected(sec, d1, d2) ==
    IF sec = "clamp" THEN Max(5, Min(30, d2))
    ELSE IF sec = "filter" THEN (IF d2 > 0 THEN d2 ELSE 0)
    ELSE (IF d2 > 0 /\ d2 > d1 THEN d2 ELSE 0)

\* C23: for every input (data1, data2) each SIMD conditional kernel stores
\* the same 8 results as its scalar counterpart: the clamp max(5, min(30,
\* data2[i])), which lies in [5, 30]; the filter data2[i] if data2[i] > 0,
\* else 0; the complex filter data2[i] if data2[i] > 0 and data2[i] >
\* data1[i], else 0.  A lane that fails the test receives exactly 0.
C23_KernelsAgree ==
    prog = "condmain" =>
        \A k \in DOMAIN cond_log \ {1} :
            LET e == cond_log[k]
                res == IF e.f[2] = "simd" THEN e.mem.result_simd
                       ELSE e.mem.result_scalar
            IN  /\ \A l \in Lanes :
                      res[l] = CondExpected(e.f[1], e.mem.data1[l], e.mem.data2[l])
                /\ (e.f[1] = "clamp") => \A l \in Lanes : res[l] \in 5..30
                /\ (e.f[2] = "simd" /\ cond_log[k - 1].f[2] = "scalar") =>
                      e.mem.result_simd = cond_log[k - 1].mem.result_scalar

C23_Witness ==
    /\ prog = "condmain" /\ pc = "done" /\ main_exit = "returned"
    /\ data1 = ProgData1 /\ data2 = ProgData2
    /\ \E k \in DOMAIN cond_log :
          /\ cond_log[k].f = <<"filter", "simd">>
          /\ cond_log[k].mem.result_simd = Vec8(<<0, 4, 9, 0, 25, 0, 49, 0>>)
    /\ \E k \in DOMAIN cond_log :
          /\ cond_log[k].f = <<"complex", "simd">>
          /\ cond_log[k].mem.result_simd = Vec8(<<0, 0, 0, 0, 0, 0, 49, 0>>)
    /\ \E k \in DOMAIN cond_log :
          /\ cond_log[k].f = <<"clamp", "simd">>
          /\ cond_log[k].mem.result_simd = Vec8(<<5, 5, 9, 5, 25, 5, 30, 5>>)

\* C24: the bitmask taken from the positive mask has bit i set exactly when
\* data2[i] > 0; for data2 = [-1, 4, 9, -16, 25, -36, 49, -64] the positive
\* positions are 1, 2, 4 and 6 and the bitmask is 86.
C24_Bitmask ==
    (prog = "condmain" /\ section \in {"filter", "complex", "blend"}) =>
        /\ \A l \in Lanes : ((bitmask \div Pow2(l)) % 2 = 1) <=> (data2[l] > 0)
        /\ bitmask \in 0..255
        /\ data2 = ProgData2 =>
              /\ {l \in Lanes : positive_mask[l] = AllOnes} = {1, 2, 4, 6}
              /\ bitmask = 86

C24_Witness ==
    /\ prog = "condmain" /\ section = "filter" /\ pc = "first_scalar"
    /\ data2 = ProgData2
    /\ bitmask = 2 + 4 + 16 + 64

\* C25: the blended register takes, per lane, the value of Vector 2 where
\* Vector 3 is above 50 and the value of Vector 1 elsewhere; with Vector 3 =
\* [10, 20, ..., 80] in lane order, lanes 0..4 come from Vector 1 and lanes
\* 5..7 from Vector 2.
C25_Blend ==
    (prog = "condmain" /\ section = "blend") =>
        /\ \A l \in Lanes :
              blended[l] = IF 10 * (l + 1) > 50 THEN data2[l] ELSE data1[l]
        /\ \A l \in 0..4 : blended[l] = data1[l]
        /\ \A l \in 5..7 : blended[l] = data2[l]
        /\ \A l \in Lanes : ProgVector3[l] = 10 * (l + 1)

C25_Witness ==
    /\ prog = "condmain" /\ section = "blend"
    /\ data1 = ProgData1 /\ data2 = ProgData2
    /\ blended = Vec8(<<5, 10, 15, 20, 25, -36, 49, -64>>)

\* the result buffer a callable is to write
OwnResult(e) ==
    IF e.f[2] = "simd" THEN e.mem.result_simd ELSE e.mem.result_scalar

\* C30: each callable of the conditional-code example (scalar_clamp,
\* simd_clamp, scalar_filter, simd_filter, scalar_complex, simd_complex) is
\* idempotent and leaves its inputs alone: every invocation leaves its result
\* buffer as the first invocation left it, none modifies data1 or data2, a
\* scalar callable does not modify result_simd and a SIMD callable does not
\* modify result_scalar.
C30_Idempotent ==
    prog = "condmain" =>
        \A k \in DOMAIN cond_log \ {1} :
            LET e == cond_log[k]
                before == cond_log[k - 1].mem
            IN  /\ e.mem.data1 = before.data1
                /\ e.mem.data2 = before.data2
                /\ e.f[2] = "scalar" => e.mem.result_simd = before.result_simd
                /\ e.f[2] = "simd" => e.mem.result_scalar = before.result_scalar
                /\ \A j \in 2..(k - 1) :
                      cond_log[j].f = e.f => OwnResult(cond_log[j]) = OwnResult(e)

C30_Witness ==
    /\ prog = "condmain" /\ pc = "free"
    /\ \A sec \in {"clamp", "filter", "complex"}, impl \in {"scalar", "simd"} :
          Cardinality({k \in DOMAIN cond_log : cond_log[k].f = <<sec, impl>>}) >= 3
    /\ cond_log[1].mem.result_simd # [k \in Lanes |-> 0]
    /\ cond_log[2].f = <<"clamp", "scalar">>
    /\ cond_log[2].mem.result_scalar # cond_log[1].mem.result_scalar
    /\ cond_log[2].mem.result_simd = cond_log[1].mem.result_simd

\* the state of a grayscale call is within the claim's limits: every write
\* went to an index in [0, width*height), no index was written twice, every
\* read of src was below width*height*3, and after the return every index
\* in range was written once, the last width mod 4 pixels of each row by
\* the scalar fallback and the others in groups of 4
GraySafe ==
    LET n == width * height
        written == vecIdx \cup remIdx
    IN  /\ written \subseteq 0..(n - 1)
        /\ vecIdx \cap remIdx = {}
        /\ \A k \in DOMAIN wcount : wcount[k] = IF k \in written THEN 1 ELSE 0
        /\ \A k \in DOMAIN dst : k >= n => dst[k] = dst0[k]
        /\ srcReads \subseteq 0..(n * 3 - 1)
        /\ y \in 0..height /\ x \in 0..(width + 3)
        /\ pc = "done" =>
              /\ written = 0..(n - 1)
              /\ remIdx = {k \in 0..(n - 1) : k % width >= (width \div 4) * 4}
              /\ srcReads = 0..(n * 3 - 1)

\* a step of the grayscale kernel returns or moves on in the image
GrayProgress ==
    \/ pc' = "done"
    \/ y' * (width + 4) + x' > y * (width + 4) + x

\* C26: for every width >= 0 and height >= 0, also widths that are not a
\* multiple of 4 and widths below 4, convert_to_grayscale_simd terminates
\* (every step advances the position and the position is bounded), writes
\* each destination index in [0, width*height) exactly once, in groups of 4
\* with the last width mod 4 pixels of each row by the scalar fallback,
\* writes no index outside that range and reads src only below
\* width*height*3.
C26_GrayWrites ==
    /\ [](prog = "gray" => GraySafe)
    /\ [][(prog = "gray" /\ pc = "loop") => GrayProgress]_vars

C26_Witness ==
    /\ prog = "gray" /\ pc = "done"
    /\ width = 7 /\ height = 2
    /\ remIdx = {4, 5, 6, 11, 12, 13}
    /\ vecIdx = {0, 1, 2, 3, 7, 8, 9, 10}
    /\ \A k \in 0..13 : wcount[k] = 1

\* C27: after benchmark_comparison("Brightness Adjustment", brightness_scalar,
\* brightness_simd, n) has returned, for any n >= 0, processed_image[i] =
\* min(255, original_image[i] + 50) for every index i and original_image is
\* as it was: the image is a single +50 adjustment of the original however
\* often the scalar callable, which does not reset the image, ran before.
C27_SingleAdjustment ==
    (prog = "benchmark" /\ bench = "brightness" /\ pc = "done" /\ iterations >= 0) =>
        /\ \A k \in 0..(bench_size - 1) :
              processed_image[k] = Min(255, original_image[k] + 50)
        /\ original_image = calls[1].input
        /\ DOMAIN processed_image = DOMAIN original_image

C27_Witness ==
    /\ prog = "benchmark" /\ bench = "brightness" /\ pc = "done"
    /\ iterations >= 2 /\ bench_size = 33
    /\ CallsOf("scalar") = iterations + 1
    /\ \E k \in 0..32 : original_image[k] > 205 /\ processed_image[k] = 255
    /\ \E k \in 0..32 : original_image[k] < 100
                          /\ processed_image[k] = original_image[k] + 50
    /\ \E j \in DOMAIN calls :
          /\ calls[j].f = "scalar"
          /\ \E k \in 0..32 : calls[j].input[k] >= original_image[k] + 100

\* C28: for every brightness in 0..255 and every pixel byte p the vector path
\* of adjust_brightness_simd stores min(255, p + brightness): the result does
\* not wrap around modulo 256 and is what the scalar kernel stores.
C28_VectorSaturates ==
    (prog = "brightness" /\ brightness \in 0..255) =>
        \A k \in vecIdx :
            /\ image[k] = Min(255, image0[k] + brightness)
            /\ image[k] >= image0[k]
            /\ image[k] = adjust_brightness_scalar(image0, size, brightness)[k]

C28_Witness ==
    /\ prog = "brightness" /\ pc = "done"
    /\ brightness = 31 /\ vecIters = 1
    /\ \E k \in vecIdx : image0[k] = 255 /\ image[k] = 255
    /\ \E k \in vecIdx : image0[k] = 225 /\ image[k] = 255
    /\ \E k \in vecIdx : image0[k] = 224 /\ image[k] = 255

\* the two lanes hold the same number: both NaN, or floats that compare equal
\* (the two zeros of binary32 compare equal)
SameNumber(r1, r2) ==
    /\ r1.nan = r2.nan /\ r1.minuend = r2.minuend
    /\ r1.sqrt_of = r2.sqrt_of /\ r1.divisor = r2.divisor

\* C29: in the quadratic solver the scalar path and the SIMD path agree, lane
\* by lane, on which lanes are reported as complex roots: a lane's result is
\* NaN exactly when its discriminant b*b - 4*a*c is negative, and otherwise
\* it is the number (-b - sqrt(discriminant)) / (2a) in both paths, the same
\* float except for the sign of a zero root of an equation with b = 0; for
\* the program's eight equations exactly equations 5, 6 and 7 (lanes 4, 5, 6)
\* yield NaN.
C29_ComplexLanes ==
    (prog = "quad" /\ pc = "done") =>
        /\ \A l \in Lanes :
              LET d == qb[l] * qb[l] - 4 * qa[l] * qc[l]
                  root == [nan |-> FALSE, minuend |-> -qb[l], sqrt_of |-> d,
                           divisor |-> 2 * qa[l]]
              IN  /\ qscalar[l].nan <=> d < 0
                  /\ qresult[l].nan <=> d < 0
                  /\ d >= 0 => /\ SameNumber(qscalar[l], root)
                               /\ SameNumber(qresult[l], root)
                  /\ qscalar[l] # qresult[l] <=> (qb[l] = 0 /\ d = 0)
        /\ (qa = ProgA /\ qb = ProgB /\ qc = ProgC) =>
              /\ {l \in Lanes : qscalar[l].nan} = {4, 5, 6}
              /\ {l \in Lanes : qresult[l].nan} = {4, 5, 6}

C29_Witness ==
    /\ prog = "quad" /\ pc = "done"
    /\ qa = ProgA /\ qb = ProgB /\ qc = ProgC
    /\ qresult[4].nan /\ qresult[5].nan /\ qresult[6].nan
    /\ qresult[7] = [nan |-> FALSE, minuend |-> -1, sqrt_of |-> 161, divisor |-> 2,
                     neg_zero |-> FALSE]
    /\ qscalar[0] = [nan |-> FALSE, minuend |-> -3, sqrt_of |-> 29, divisor |-> 10,
                     neg_zero |-> FALSE]

\* the equation 7x^2 + 0x + 0 = 0: scalar_func stores -0.0 and simd_func +0.0
ZeroRootSigns ==
    /\ prog = "quad" /\ pc = "done"
    /\ qb[3] = 0 /\ qc[3] = 0
    /\ qscalar[3].neg_zero /\ ~qresult[3].neg_zero

====
